---- MODULE Spec2Model ----
(***************************************************************************)
(* serialfinder: enumeration of USB serial devices.                        *)
(*                                                                         *)
(* Three engines share one contract, GetSerialDevices(vid, pid):           *)
(*   Linux   getSerialDevicesWithReader   (fileSystemReader)               *)
(*   Windows getSerialDevicesWithRegistry (registryHandler, portCheck)     *)
(*   macOS   getSerialDevicesWithExecutor (commandExecutor)                *)
(*                                                                         *)
(* A Go string is a sequence of one-character strings, so that ToUpper,    *)
(* TrimSpace, the regular expressions and the number formatting are        *)
(* computed character by character.  A file path is the sequence of its    *)
(* elements, "/" first when absolute.                                      *)
(***************************************************************************)
EXTENDS Integers, Sequences, FiniteSets, TLC

VARIABLES
    platform,         \* build tag of the binary: "linux", "windows", "darwin"
    fsys,             \* Linux: the filesystem behind fileSystemReader
    reg,              \* Windows: the registry and the COM ports
    ioreg,            \* macOS: what executing ioreg gives
    checkPortActive,  \* Windows package-level variable (serialfinder_windows.go:60)
    pc,               \* position of the running call ("idle": none)
    vid, pid,         \* the arguments of the running (or last) call
    devices,          \* var devices []SerialDeviceInfo
    loc,              \* the other locals of the running call
    ops,              \* the operations the call has performed on its collaborators
    opened,           \* handles opened by the call and not closed yet
    ret,              \* what the last call returned (None while a call runs)
    first,            \* what the first call returned, and its arguments
    again             \* the last call that returned was not the first

vars == <<platform, fsys, reg, ioreg, checkPortActive, pc, vid, pid, devices,
          loc, ops, opened, ret, first, again>>

envVars == <<platform, fsys, reg, ioreg, checkPortActive>>

\* The number of by-id entries, registry instances and ioreg sections of an
\* environment.
MaxDevices == 2

None == [none |-> TRUE]
NoLocals == [none |-> TRUE]

(***************************************************************************)
(* strings                                                                 *)
(***************************************************************************)
LowerLetters == <<"a", "b", "c", "d", "e", "f", "g", "h", "i", "j", "k", "l", "m",
                  "n", "o", "p", "q", "r", "s", "t", "u", "v", "w", "x", "y", "z">>
UpperLetters == <<"A", "B", "C", "D", "E", "F", "G", "H", "I", "J", "K", "L", "M",
                  "N", "O", "P", "Q", "R", "S", "T", "U", "V", "W", "X", "Y", "Z">>

IndexIn(c, letters) == CHOOSE i \in 1..Len(letters) : letters[i] = c
IsIn(c, letters) == \E i \in 1..Len(letters) : letters[i] = c

\* U+212A KELVIN SIGN, one letter outside ASCII: it is an upper-case letter
\* whose lower case is "k", and the upper case of "k" is "K".
KelvinSign == "U+212A"

\* unicode.ToUpper, unicode.ToLower
ToUpperChar(c) == IF IsIn(c, LowerLetters) THEN UpperLetters[IndexIn(c, LowerLetters)] ELSE c
ToLowerChar(c) == IF IsIn(c, UpperLetters) THEN LowerLetters[IndexIn(c, UpperLetters)]
                  ELSE IF c = KelvinSign THEN "k" ELSE c

\* no conversion at all
ToUpperNoop(s) == s

\* strings.ToUpper, strings.ToLower
ToUpper(s) == [i \in 1..Len(s) |-> ToUpperChar(s[i])]
ToLower(s) == [i \in 1..Len(s) |-> ToLowerChar(s[i])]

IsSpace(c) == c \in {" ", "\t", "\n", "\r"}

SetMin(S) == CHOOSE m \in S : \A n \in S : m <= n
SetMax(S) == CHOOSE m \in S : \A n \in S : n <= m

\* strings.TrimSpace
TrimSpace(s) ==
    LET keep == {i \in 1..Len(s) : ~IsSpace(s[i])}
    IN  IF keep = {} THEN <<>> ELSE SubSeq(s, SetMin(keep), SetMax(keep))

\* strings.HasPrefix, strings.HasSuffix, strings.TrimSuffix, strings.Contains
HasPrefix(s, p) == Len(s) >= Len(p) /\ SubSeq(s, 1, Len(p)) = p
HasSuffix(s, p) == Len(s) >= Len(p) /\ SubSeq(s, Len(s) - Len(p) + 1, Len(s)) = p
TrimSuffix(s, p) == IF HasSuffix(s, p) THEN SubSeq(s, 1, Len(s) - Len(p)) ELSE s
Contains(s, p) == \E i \in 1..(Len(s) - Len(p) + 1) : SubSeq(s, i, i + Len(p) - 1) = p

(***************************************************************************)
(* the arguments the callers pass                                          *)
(***************************************************************************)
FilterPairs ==
    { << <<>>, <<>> >>,
      << <<"0", "4", "0", "3">>, <<"6", "0", "0", "1">> >>,
      << <<"1", "a", "8", "6">>, <<"7", "5", "2", "3">> >>,
      << <<"1", "A", "8", "6">>, <<"7", "5", "2", "3">> >>,
      << <<>>, <<"k", "0", "0", "1">> >>,
      << <<>>, <<KelvinSign, "0", "0", "1">> >> }

(***************************************************************************)
(* Linux: paths                                                            *)
(***************************************************************************)
\* filepath.Join(dir, name) of a clean dir and one element
Join(dir, name) == IF dir = <<".">> THEN <<name>> ELSE Append(dir, name)

\* filepath.Dir
Dir(p) ==
    IF Len(p) <= 1
    THEN IF p = <<"/">> THEN <<"/">> ELSE <<".">>
    ELSE SubSeq(p, 1, Len(p) - 1)

\* filepath.Base
Base(p) == p[Len(p)]

serialByIDPath == <<"/", "dev", "serial", "by-id">>

(***************************************************************************)
(* Linux: the filesystem behind the reader.  An environment is a list of   *)
(* by-id entries, each drawn from LinuxKinds; entry i owns the paths       *)
(* /dev/serial/by-id/usb-dev<i>, /dev/ttyUSB<i>,                           *)
(* /sys/class/tty/ttyUSB<i>/device and                                     *)
(* /sys/devices/pci0/usb1/1-<i>/1-<i>:1.0/ttyUSB<i>.                       *)
(***************************************************************************)
NoFile == [ok |-> FALSE, data |-> <<>>]
File(s) == [ok |-> TRUE, data |-> s]

GoodEntry ==
    [isDir |-> FALSE, linkOK |-> TRUE, classOK |-> TRUE,
     vidAt |-> {1}, pidAt |-> {1},
     vendor |-> File(<<"0", "4", "0", "3", "\n">>),
     product |-> File(<<"6", "0", "0", "1", "\n">>),
     serial |-> File(<<"S", "N", "1", "\n">>)]

LinuxKinds ==
    { GoodEntry,
      \* lower-case attribute files two levels up, no serial file
      [GoodEntry EXCEPT !.vidAt = {2}, !.pidAt = {2},
                        !.vendor = File(<<"1", "a", "8", "6">>),
                        !.product = File(<<"7", "5", "2", "3">>),
                        !.serial = NoFile],
      \* a directory in by-id
      [GoodEntry EXCEPT !.isDir = TRUE],
      \* a broken by-id symlink
      [GoodEntry EXCEPT !.linkOK = FALSE],
      \* idProduct is missing everywhere
      [GoodEntry EXCEPT !.vidAt = {0, 1}, !.pidAt = {}],
      \* idVendor exists and cannot be read
      [GoodEntry EXCEPT !.vendor = NoFile],
      \* idProduct exists and cannot be read
      [GoodEntry EXCEPT !.product = NoFile],
      \* idVendor holds white space only
      [GoodEntry EXCEPT !.vendor = File(<<" ", "\n">>)],
      \* idProduct holds a word that is no hexadecimal number
      [GoodEntry EXCEPT !.product = File(<<"k", "0", "0", "1", "\n">>)] }

EntryName(i) == "usb-dev" \o ToString(i)
TtyName(i) == "ttyUSB" \o ToString(i)
DevNode(i) == <<"/", "dev", TtyName(i)>>
ClassLink(i) == <<"/", "sys", "class", "tty", TtyName(i), "device">>
ClassTarget(i) ==
    <<"/", "sys", "devices", "pci0", "usb1", "1-" \o ToString(i),
      "1-" \o ToString(i) \o ":1.0", TtyName(i)>>

RECURSIVE Ancestor(_, _)
Ancestor(p, k) == IF k = 0 THEN p ELSE Ancestor(Dir(p), k - 1)

MkFsys(kinds) ==
    LET n == Len(kinds)
        AttrDirs(i) == {Ancestor(ClassTarget(i), k) :
                            k \in kinds[i].vidAt \cup kinds[i].pidAt}
    IN  [readDirErr |-> "nil",
         dirEntries |-> [i \in 1..n |-> [name |-> EntryName(i), isDir |-> kinds[i].isDir]],
         symlinks |->
            {<<Join(serialByIDPath, EntryName(i)), DevNode(i)>> :
                i \in {j \in 1..n : kinds[j].linkOK}}
            \cup {<<ClassLink(i), ClassTarget(i)>> :
                i \in {j \in 1..n : kinds[j].classOK}},
         stats |->
            UNION {{Join(Ancestor(ClassTarget(i), k), "idVendor") : k \in kinds[i].vidAt}
                   \cup {Join(Ancestor(ClassTarget(i), k), "idProduct") : k \in kinds[i].pidAt}
                   : i \in 1..n},
         files |->
            UNION {{<<Join(d, "idVendor"), kinds[i].vendor.data>> :
                        d \in IF kinds[i].vendor.ok THEN AttrDirs(i) ELSE {}}
                   \cup {<<Join(d, "idProduct"), kinds[i].product.data>> :
                        d \in IF kinds[i].product.ok THEN AttrDirs(i) ELSE {}}
                   \cup {<<Join(d, "serial"), kinds[i].serial.data>> :
                        d \in IF kinds[i].serial.ok THEN AttrDirs(i) ELSE {}}
                   : i \in 1..n}]

\* ReadDir of /dev/serial/by-id fails: the directory is absent, unreadable, or
\* the read fails otherwise.
ReadDirErrors == {"ErrNotExist", "ErrPermission", "EIO"}

SeqsUpTo(S, n) == UNION {[1..k -> S] : k \in 0..n}

LinuxEnvs ==
    {MkFsys(kinds) : kinds \in SeqsUpTo(LinuxKinds, MaxDevices)}
    \cup {[MkFsys(<<GoodEntry>>) EXCEPT !.readDirErr = e] : e \in ReadDirErrors}

NoFsys == MkFsys(<<>>)

(***************************************************************************)
(* Linux: fileSystemReader (part_000:16-37)                                *)
(***************************************************************************)
\* os.IsNotExist, os.IsPermission
IsNotExist(err) == err = "ErrNotExist"
IsPermission(err) == err = "ErrPermission"

\* os.ReadDir returns the entries it could read together with its error.
ReadDir(dirname) ==
    IF dirname = serialByIDPath
    THEN [err |-> fsys.readDirErr, entries |-> fsys.dirEntries]
    ELSE [err |-> "ErrNotExist", entries |-> <<>>]

EvalSymlinks(path) ==
    IF \E l \in fsys.symlinks : l[1] = path
    THEN [err |-> "nil", path |-> (CHOOSE l \in fsys.symlinks : l[1] = path)[2]]
    ELSE [err |-> "ErrNotExist", path |-> <<>>]

ReadFile(filename) ==
    IF \E f \in fsys.files : f[1] = filename
    THEN [err |-> "nil", data |-> (CHOOSE f \in fsys.files : f[1] = filename)[2]]
    ELSE [err |-> "EIO", data |-> <<>>]

Stat(name) == IF name \in fsys.stats THEN "nil" ELSE "ErrNotExist"

Op(name, arg) == <<name, arg>>

(***************************************************************************)
(* what a call returns                                                     *)
(***************************************************************************)
SerialDeviceInfo(serial, v, p, port) ==
    [SerialNumber |-> serial, Vid |-> v, Pid |-> p, Port |-> port]

\* a list that outlives the call: the one the first call returned
DevicesOfFirstCall == IF first = None THEN <<>> ELSE first.devices

\* var devices []SerialDeviceInfo
NewDevices == <<>>

\* return devs, err: the call is over; its locals are gone.
Return(v, p, devs, err) ==
    /\ ret' = [devices |-> devs, err |-> err]
    /\ first' = IF first = None
                THEN [vid |-> v, pid |-> p, devices |-> devs, err |-> err]
                ELSE first
    /\ pc' = "idle"
    /\ again' = (first # None)
    /\ devices' = <<>>
    /\ loc' = NoLocals

\* return devices, err: the records collected so far go out with the error
ReturnErrorWithDevices(v, p, err) == Return(v, p, devices, err)

\* return nil, nil: the error is swallowed
ReturnErrorSwallowed(v, p, err) == Return(v, p, <<>>, "nil")

\* return nil, err
ReturnError(v, p, err) == Return(v, p, <<>>, err)

(***************************************************************************)
(* Linux: getSerialDevicesWithReader (part_000:47-139)                     *)
(***************************************************************************)
\* checkForVIDPIDFilesWithReader (part_000:189-194): both Stat calls are made.
checkForVIDPIDFilesWithReader(dir) ==
    Stat(Join(dir, "idVendor")) = "nil" /\ Stat(Join(dir, "idProduct")) = "nil"

checkForVIDPIDFilesOps(dir) ==
    <<Op("Stat", Join(dir, "idVendor")), Op("Stat", Join(dir, "idProduct"))>>

\* the grandparent directory is examined whatever it is
findSerialDeviceInfoDirUnguarded(devicePath) ==
    LET sysTTYPath == <<"/", "sys", "class", "tty", Base(devicePath), "device">>
        ev == EvalSymlinks(sysTTYPath)
        usbDeviceSysfsPath == ev.path
        parentDir == Dir(usbDeviceSysfsPath)
        grandparentDir == Dir(parentDir)
        o0 == <<Op("EvalSymlinks", sysTTYPath)>>
        o1 == o0 \o checkForVIDPIDFilesOps(usbDeviceSysfsPath)
        o2 == o1 \o checkForVIDPIDFilesOps(parentDir)
        o3 == o2 \o checkForVIDPIDFilesOps(grandparentDir)
    IN  IF ev.err # "nil" THEN [dir |-> <<>>, ops |-> o0]
        ELSE IF checkForVIDPIDFilesWithReader(usbDeviceSysfsPath)
        THEN [dir |-> usbDeviceSysfsPath, ops |-> o1]
        ELSE IF checkForVIDPIDFilesWithReader(parentDir)
        THEN [dir |-> parentDir, ops |-> o2]
        ELSE IF checkForVIDPIDFilesWithReader(grandparentDir)
        THEN [dir |-> grandparentDir, ops |-> o3]
        ELSE [dir |-> <<>>, ops |-> o3]

\* findSerialDeviceInfoDirWithReader (part_000:142-186): the directory found
\* ("" is <<>>) and the reader calls made.
findSerialDeviceInfoDirWithReader(devicePath) ==
    LET sysTTYPath == <<"/", "sys", "class", "tty", Base(devicePath), "device">>
        ev == EvalSymlinks(sysTTYPath)
        usbDeviceSysfsPath == ev.path
        parentDir == Dir(usbDeviceSysfsPath)
        grandparentDir == Dir(parentDir)
        o0 == <<Op("EvalSymlinks", sysTTYPath)>>
        o1 == o0 \o checkForVIDPIDFilesOps(usbDeviceSysfsPath)
        o2 == o1 \o checkForVIDPIDFilesOps(parentDir)
        o3 == o2 \o checkForVIDPIDFilesOps(grandparentDir)
    IN  IF ev.err # "nil" THEN [dir |-> <<>>, ops |-> o0]
        ELSE IF checkForVIDPIDFilesWithReader(usbDeviceSysfsPath)
        THEN [dir |-> usbDeviceSysfsPath, ops |-> o1]
        ELSE IF checkForVIDPIDFilesWithReader(parentDir)
        THEN [dir |-> parentDir, ops |-> o2]
        ELSE IF grandparentDir # parentDir /\ grandparentDir # <<".">>
                /\ grandparentDir # <<"/">>
        THEN IF checkForVIDPIDFilesWithReader(grandparentDir)
             THEN [dir |-> grandparentDir, ops |-> o3]
             ELSE [dir |-> <<>>, ops |-> o3]
        ELSE [dir |-> <<>>, ops |-> o2]

\* The filter of all three engines: an empty target matches everything.
\* an empty filter is compared like any other
FilterMatchExact(target, actual) == actual = target

\* the filters let everything through
FilterMatchAnything(target, actual) == TRUE

FilterMatch(target, actual) == target = <<>> \/ actual = target

\* a placeholder in place of the empty string
SerialPlaceholder == <<"u", "n", "k", "n", "o", "w", "n">>

\* The serial number when reading the serial file fails (part_000:121-123).
SerialOnReadError == <<>>

\* an entry that cannot be used ends the call with an error
ContinueFails(o) ==
    [kind |-> "return", ops |-> o, err |-> "error resolving entry", device |-> None]

Continue(o) == [kind |-> "continue", ops |-> o, err |-> "nil", device |-> None]
\* the entry is skipped instead
FailSkipsEntry(o, e) == [kind |-> "continue", ops |-> o, err |-> "nil", device |-> None]

Fail(o, e) == [kind |-> "return", ops |-> o, err |-> e, device |-> None]
\* the record names the resolved device node, not the by-id path
EmitDeviceNode(o, d) ==
    [kind |-> "append", ops |-> o, err |-> "nil",
     device |-> [d EXCEPT !.Port = EvalSymlinks(d.Port).path]]

Emit(o, d) == [kind |-> "append", ops |-> o, err |-> "nil", device |-> d]

\* each filter is applied as soon as its attribute has been read
LinuxLoopBodyFiltersEarly(entry, targetVidUpper, targetPidUpper) ==
    LET symlinkPath == Join(serialByIDPath, entry.name)
        ev == EvalSymlinks(symlinkPath)
        o1 == <<Op("EvalSymlinks", symlinkPath)>>
        found == findSerialDeviceInfoDirWithReader(ev.path)
        usbDir == found.dir
        o2 == o1 \o found.ops
        rv == ReadFile(Join(usbDir, "idVendor"))
        o3 == Append(o2, Op("ReadFile", Join(usbDir, "idVendor")))
        rp == ReadFile(Join(usbDir, "idProduct"))
        o4 == Append(o3, Op("ReadFile", Join(usbDir, "idProduct")))
        vidStr == ToUpper(TrimSpace(rv.data))
        pidStr == ToUpper(TrimSpace(rp.data))
        rs == ReadFile(Join(usbDir, "serial"))
        o5 == Append(o4, Op("ReadFile", Join(usbDir, "serial")))
        serialNumberStr == IF rs.err # "nil" THEN SerialOnReadError
                           ELSE TrimSpace(rs.data)
    IN  IF entry.isDir THEN Continue(<<>>)
        ELSE IF ev.err # "nil" THEN Continue(o1)
        ELSE IF usbDir = <<>> THEN Continue(o2)
        ELSE IF rv.err # "nil" THEN Fail(o3, "error reading idVendor")
        ELSE IF ~FilterMatch(targetVidUpper, vidStr) THEN Continue(o3)
        ELSE IF rp.err # "nil" THEN Fail(o4, "error reading idProduct")
        ELSE IF ~FilterMatch(targetPidUpper, pidStr) THEN Continue(o4)
        ELSE Emit(o5, SerialDeviceInfo(serialNumberStr, vidStr, pidStr, symlinkPath))

\* One iteration of the loop over the directory entries (part_000:69-136).
LinuxLoopBody(entry, targetVidUpper, targetPidUpper) ==
    LET symlinkPath == Join(serialByIDPath, entry.name)
        ev == EvalSymlinks(symlinkPath)
        o1 == <<Op("EvalSymlinks", symlinkPath)>>
        found == findSerialDeviceInfoDirWithReader(ev.path)
        usbDir == found.dir
        o2 == o1 \o found.ops
        rv == ReadFile(Join(usbDir, "idVendor"))
        o3 == Append(o2, Op("ReadFile", Join(usbDir, "idVendor")))
        rp == ReadFile(Join(usbDir, "idProduct"))
        o4 == Append(o3, Op("ReadFile", Join(usbDir, "idProduct")))
        vidStr == ToUpper(TrimSpace(rv.data))
        pidStr == ToUpper(TrimSpace(rp.data))
        rs == ReadFile(Join(usbDir, "serial"))
        o5 == Append(o4, Op("ReadFile", Join(usbDir, "serial")))
        serialNumberStr == IF rs.err # "nil" THEN SerialOnReadError
                           ELSE TrimSpace(rs.data)
    IN  IF entry.isDir THEN Continue(<<>>)
        ELSE IF ev.err # "nil" THEN Continue(o1)
        ELSE IF usbDir = <<>> THEN Continue(o2)
        ELSE IF rv.err # "nil" THEN Fail(o3, "error reading idVendor")
        ELSE IF rp.err # "nil" THEN Fail(o4, "error reading idProduct")
        ELSE IF ~FilterMatch(targetVidUpper, vidStr) THEN Continue(o4)
        ELSE IF ~FilterMatch(targetPidUpper, pidStr) THEN Continue(o4)
        ELSE Emit(o5, SerialDeviceInfo(serialNumberStr, vidStr, pidStr, symlinkPath))

\* only an absent directory is tolerated
LinuxReadDirFailureAbsentOnly(err) ==
    IF IsNotExist(err) THEN "nil" ELSE "error reading /dev/serial/by-id"

\* every failure is tolerated
LinuxReadDirFailureTolerant(err) == "nil"

\* The error the call returns when ReadDir fails with err (part_000:55-62).
LinuxReadDirFailure(err) ==
    IF IsNotExist(err) \/ IsPermission(err) THEN "nil"
    ELSE "error reading /dev/serial/by-id"

\* The call up to its loop (part_000:47-66).
LinuxCall(v, p) ==
    /\ pc = "idle"
    /\ platform = "linux"
    /\ vid' = v
    /\ pid' = p
    /\ ops' = <<Op("ReadDir", serialByIDPath)>>
    /\ opened' = {}
    /\ LET rd == ReadDir(serialByIDPath)
           err == LinuxReadDirFailure(rd.err)
       IN  IF rd.err # "nil"
           THEN IF err = "nil" THEN Return(v, p, NewDevices, "nil")
                ELSE ReturnError(v, p, err)
           ELSE /\ pc' = "linux_loop"
                /\ devices' = NewDevices
                /\ loc' = [entries |-> rd.entries, idx |-> 1,
                           targetVidUpper |-> ToUpper(v),
                           targetPidUpper |-> ToUpper(p)]
                /\ ret' = None
                /\ UNCHANGED <<first, again>>
    /\ UNCHANGED envVars

LinuxEntry ==
    /\ pc = "linux_loop"
    /\ loc.idx <= Len(loc.entries)
    /\ LET out == LinuxLoopBody(loc.entries[loc.idx], loc.targetVidUpper,
                               loc.targetPidUpper)
       IN  /\ ops' = ops \o out.ops
           /\ IF out.kind = "return"
              THEN ReturnError(vid, pid, out.err)
              ELSE /\ devices' = IF out.kind = "append"
                                 THEN Append(devices, out.device)
                                 ELSE devices
                   /\ loc' = [loc EXCEPT !.idx = loc.idx + 1]
                   /\ UNCHANGED <<pc, ret, first, again>>
    /\ UNCHANGED <<envVars, vid, pid, opened>>

\* return devices, nil (part_000:138)
LinuxDone ==
    /\ pc = "linux_loop"
    /\ loc.idx > Len(loc.entries)
    /\ Return(vid, pid, devices, "nil")
    /\ UNCHANGED <<envVars, vid, pid, ops, opened>>

(***************************************************************************)
(* Windows: the registry behind registryHandler and the COM ports.  A key  *)
(* is named by its place below HKLM\SYSTEM\CurrentControlSet\Enum\USB: the *)
(* root, <instance ID>, or <instance ID>\<child>\Device Parameters.        *)
(***************************************************************************)
RegPath(kind, id, child) == [kind |-> kind, id |-> id, child |-> child]
enumUSBPath == RegPath("SYSTEM\\CurrentControlSet\\Enum\\USB", <<>>, <<>>)
InstancePath(id) == RegPath("instance", id, <<>>)
DeviceParamsPath(id, child) == RegPath("Device Parameters", id, child)

NoValue == [ok |-> FALSE, data |-> <<>>]
Value(s) == [ok |-> TRUE, data |-> s]

WinChild(name, paramsOK, portName, active) ==
    [name |-> name, paramsOK |-> paramsOK, portName |-> portName, active |-> active]

WinInstanceOf(id, openOK, enumOK, children) ==
    [id |-> id, openOK |-> openOK, enumOK |-> enumOK, children |-> children]

COM3 == <<"C", "O", "M", "3">>
COM4 == <<"C", "O", "M", "4">>
COM5 == <<"C", "O", "M", "5">>
COM6 == <<"C", "O", "M", "6">>

WindowsKinds ==
    { \* one attached device
      WinInstanceOf(<<"V", "I", "D", "_", "0", "4", "0", "3", "&", "P", "I", "D", "_",
                      "6", "0", "0", "1">>, TRUE, TRUE,
                    <<WinChild(<<"S", "N", "1">>, TRUE, Value(COM3), TRUE)>>),
      \* lower-case hexadecimal digits; one child attached, one only cached
      WinInstanceOf(<<"V", "I", "D", "_", "1", "a", "8", "6", "&", "P", "I", "D", "_",
                      "7", "5", "2", "3">>, TRUE, TRUE,
                    <<WinChild(<<"A", "7">>, TRUE, Value(COM4), TRUE),
                      WinChild(<<"B", "8">>, TRUE, Value(COM5), FALSE)>>),
      \* no VID_ and no PID_ token
      WinInstanceOf(<<"R", "O", "O", "T", "_", "H", "U", "B", "3", "0">>, TRUE, TRUE,
                    <<WinChild(<<"S", "N", "1">>, TRUE, Value(COM6), TRUE)>>),
      \* a VID_ token and no PID_ token
      WinInstanceOf(<<"V", "I", "D", "_", "0", "4", "0", "3", "&", "R", "E", "V", "_",
                      "0", "1", "0", "0">>, TRUE, TRUE,
                    <<WinChild(<<"S", "N", "1">>, TRUE, Value(COM6), TRUE)>>),
      \* the instance key cannot be opened
      WinInstanceOf(<<"V", "I", "D", "_", "0", "4", "0", "3", "&", "P", "I", "D", "_",
                      "6", "0", "1", "5">>, FALSE, TRUE, <<>>),
      \* the instance key cannot be enumerated
      WinInstanceOf(<<"V", "I", "D", "_", "0", "4", "0", "3", "&", "P", "I", "D", "_",
                      "6", "0", "1", "0">>, TRUE, FALSE, <<>>),
      \* a child without Device Parameters, a child without PortName
      WinInstanceOf(<<"V", "I", "D", "_", "1", "0", "C", "4", "&", "P", "I", "D", "_",
                      "E", "A", "6", "0">>, TRUE, TRUE,
                    <<WinChild(<<"A", "7">>, FALSE, NoValue, FALSE),
                      WinChild(<<"B", "8">>, TRUE, NoValue, FALSE)>>),
      \* an empty PortName that the probe accepts
      WinInstanceOf(<<"V", "I", "D", "_", "1", "A", "8", "6", "&", "P", "I", "D", "_",
                      "5", "5", "D", "4">>, TRUE, TRUE,
                    <<WinChild(<<"S", "N", "1">>, TRUE, Value(<<>>), TRUE)>>),
      \* PID_ before VID_, another separator, a second PID_ token
      WinInstanceOf(<<"P", "I", "D", "_", "6", "0", "0", "1", "#", "V", "I", "D", "_",
                      "0", "4", "0", "3", "&", "P", "I", "D", "_", "f", "f", "f", "f">>,
                    TRUE, TRUE,
                    <<WinChild(<<"S", "N", "2">>, TRUE, Value(COM6), TRUE)>>) }

\* Lists of distinct instances: a key has no two subkeys of one name.
DistinctSeqsUpTo(S, n) ==
    {q \in SeqsUpTo(S, n) : \A i, j \in 1..Len(q) : i # j => q[i] # q[j]}

MkReg(instances) ==
    LET n == Len(instances)
        Children(i) == instances[i].children
    IN  [hklmOK |-> TRUE,
         keys |->
            {enumUSBPath}
            \cup {InstancePath(instances[i].id) : i \in {j \in 1..n : instances[j].openOK}}
            \cup UNION {{DeviceParamsPath(instances[i].id, Children(i)[k].name) :
                            k \in {m \in 1..Len(Children(i)) : Children(i)[m].paramsOK}}
                        : i \in 1..n},
         subkeys |->
            {<<enumUSBPath, [i \in 1..n |-> instances[i].id]>>}
            \cup {<<InstancePath(instances[i].id),
                    [k \in 1..Len(Children(i)) |-> Children(i)[k].name]>> :
                        i \in {j \in 1..n : instances[j].enumOK}},
         values |->
            UNION {{<<DeviceParamsPath(instances[i].id, Children(i)[k].name),
                      Children(i)[k].portName.data>> :
                            k \in {m \in 1..Len(Children(i)) : Children(i)[m].portName.ok}}
                        : i \in 1..n},
         active |->
            UNION {{Children(i)[k].portName.data :
                            k \in {m \in 1..Len(Children(i)) : Children(i)[m].active}}
                        : i \in 1..n}]

NoReg == MkReg(<<>>)

WindowsEnvs ==
    {MkReg(instances) : instances \in DistinctSeqsUpTo(WindowsKinds, MaxDevices)}
    \cup {[NoReg EXCEPT !.hklmOK = FALSE],
          [NoReg EXCEPT !.keys = {}],
          [NoReg EXCEPT !.subkeys = {}]}

(***************************************************************************)
(* Windows: registry, registryHandler, registryKey                         *)
(* (serialfinder_windows.go:15-53)                                         *)
(***************************************************************************)
\* registry.OpenKey(registry.LOCAL_MACHINE, enumUSBPath, registry.READ)
RegistryOpenKey(path) == IF reg.hklmOK THEN "nil" ELSE "ERROR_ACCESS_DENIED"

\* rh.OpenKey(registry.LOCAL_MACHINE, path, registry.READ)
OpenKey(path) == IF path \in reg.keys THEN "nil" ELSE "ERROR_FILE_NOT_FOUND"

ReadSubKeyNames(path) ==
    IF \E k \in reg.subkeys : k[1] = path
    THEN [err |-> "nil", names |-> (CHOOSE k \in reg.subkeys : k[1] = path)[2]]
    ELSE [err |-> "ERROR_ACCESS_DENIED", names |-> <<>>]

\* GetStringValue("PortName")
GetStringValue(path) ==
    IF \E x \in reg.values : x[1] = path
    THEN [err |-> "nil", value |-> (CHOOSE x \in reg.values : x[1] = path)[2]]
    ELSE [err |-> "ErrNotExist", value |-> <<>>]

\* syscall.CreateFile(`\\.\` + portName, ...) in checkCOMPortActiveWindows
CreateFile(portName) == IF portName \in reg.active THEN "nil" ELSE "ERROR_ACCESS_DENIED"

Handle(name, what) == <<name, what>>

(***************************************************************************)
(* Windows: getSerialDevicesWithRegistry (serialfinder_windows.go:74-197)  *)
(***************************************************************************)
HexDigits == {"0", "1", "2", "3", "4", "5", "6", "7", "8", "9",
              "a", "b", "c", "d", "e", "f", "A", "B", "C", "D", "E", "F"}

\* regexp `<prefix>([0-9a-fA-F]{4})`, FindStringSubmatch: the leftmost match.
\* found is len(matches) > 1, token is matches[1].
FindStringSubmatch(prefix, s) ==
    LET n == Len(prefix)
        starts == {i \in 1..(Len(s) - n - 3) :
                      /\ SubSeq(s, i, i + n - 1) = prefix
                      /\ \A j \in 0..3 : s[i + n + j] \in HexDigits}
    IN  IF starts = {} THEN [found |-> FALSE, token |-> <<>>]
        ELSE [found |-> TRUE,
              token |-> SubSeq(s, SetMin(starts) + n, SetMin(starts) + n + 3)]

\* A vidRegex whose character class lacks a-f: `VID_([0-9A-F]{4})`.
vidRegexUpperOnly(s) ==
    LET upper == {"0", "1", "2", "3", "4", "5", "6", "7", "8", "9",
                  "A", "B", "C", "D", "E", "F"}
        starts == {i \in 1..(Len(s) - 7) :
                      /\ SubSeq(s, i, i + 3) = <<"V", "I", "D", "_">>
                      /\ \A j \in 0..3 : s[i + 4 + j] \in upper}
    IN  IF starts = {} THEN [found |-> FALSE, token |-> <<>>]
        ELSE [found |-> TRUE, token |-> SubSeq(s, SetMin(starts) + 4, SetMin(starts) + 7)]

vidRegex(s) == FindStringSubmatch(<<"V", "I", "D", "_">>, s)
\* A greedy pidRegex, `.*PID_([0-9a-fA-F]{4})`: the rightmost token.
pidRegexGreedy(s) ==
    LET starts == {i \in 1..(Len(s) - 7) :
                      /\ SubSeq(s, i, i + 3) = <<"P", "I", "D", "_">>
                      /\ \A j \in 0..3 : s[i + 4 + j] \in HexDigits}
    IN  IF starts = {} THEN [found |-> FALSE, token |-> <<>>]
        ELSE [found |-> TRUE, token |-> SubSeq(s, SetMax(starts) + 4, SetMax(starts) + 7)]

pidRegex(s) == FindStringSubmatch(<<"P", "I", "D", "_">>, s)

\* defer <handle>.Close()
Close(handles, h) == handles \ {h}

\* The call up to its loop (serialfinder_windows.go:74-129).
WinCall(v, p) ==
    /\ pc = "idle"
    /\ platform = "windows"
    /\ vid' = v
    /\ pid' = p
    /\ LET e1 == RegistryOpenKey(enumUSBPath)
           e2 == OpenKey(enumUSBPath)
           rs == ReadSubKeyNames(enumUSBPath)
           o1 == <<Op("registry.OpenKey", enumUSBPath)>>
           o2 == Append(o1, Op("OpenKey", enumUSBPath))
           o3 == Append(o2, Op("ReadSubKeyNames", enumUSBPath))
           enumUSBKeyHandle == Handle("enumUSBKeyHandle", enumUSBPath)
           key == Handle("key", enumUSBPath)
       IN  IF e1 # "nil"
           THEN /\ ops' = o1
                /\ opened' = {}
                /\ ReturnError(v, p, "failed to open USB enumeration registry key LKM")
           ELSE IF e2 # "nil"
           THEN /\ ops' = o2
                /\ opened' = {enumUSBKeyHandle}
                /\ ReturnError(v, p, "failed to open USB enumeration registry key")
           ELSE IF rs.err # "nil"
           THEN /\ ops' = Append(o3, Op("Close", enumUSBPath))
                /\ opened' = Close({enumUSBKeyHandle, key}, key)
                /\ ReturnError(v, p, "failed to read USB device instance IDs")
           ELSE /\ ops' = o3
                /\ opened' = {enumUSBKeyHandle, key}
                /\ pc' = "win_instances"
                /\ devices' = NewDevices
                /\ loc' = [deviceInstanceIDs |-> rs.names, i |-> 1,
                           targetVidUpper |-> ToUpper(v),
                           targetPidUpper |-> ToUpper(p)]
                /\ ret' = None
                /\ UNCHANGED <<first, again>>
    /\ UNCHANGED envVars

\* The head of one iteration over the instance IDs, up to the loop over the
\* children (serialfinder_windows.go:131-181).
WinInstance ==
    /\ pc = "win_instances"
    /\ loc.i <= Len(loc.deviceInstanceIDs)
    /\ LET deviceInstanceID == loc.deviceInstanceIDs[loc.i]
           vidMatches == vidRegex(deviceInstanceID)
           pidMatches == pidRegex(deviceInstanceID)
           actualVid == ToUpper(vidMatches.token)
           actualPid == ToUpper(pidMatches.token)
           fullDeviceInstancePath == InstancePath(deviceInstanceID)
           e == OpenKey(fullDeviceInstancePath)
           rs == ReadSubKeyNames(fullDeviceInstancePath)
           h == Handle("deviceInstanceRegKey", fullDeviceInstancePath)
           o1 == Append(ops, Op("OpenKey", fullDeviceInstancePath))
           o2 == Append(o1, Op("ReadSubKeyNames", fullDeviceInstancePath))
           next == [loc EXCEPT !.i = loc.i + 1]
       IN  IF \/ ~vidMatches.found
              \/ ~pidMatches.found
              \/ ~FilterMatch(loc.targetVidUpper, actualVid)
              \/ ~FilterMatch(loc.targetPidUpper, actualPid)
           THEN /\ loc' = next
                /\ UNCHANGED <<pc, ops, opened>>
           ELSE IF e # "nil"
           THEN /\ loc' = next
                /\ ops' = o1
                /\ UNCHANGED <<pc, opened>>
           ELSE IF rs.err # "nil"
           THEN /\ loc' = next
                /\ ops' = Append(o2, Op("Close", fullDeviceInstancePath))
                /\ opened' = Close(opened \cup {h}, h)
                /\ UNCHANGED pc
           ELSE /\ pc' = "win_children"
                /\ ops' = o2
                /\ opened' = opened \cup {h}
                /\ loc' = [deviceInstanceIDs |-> loc.deviceInstanceIDs, i |-> loc.i,
                           targetVidUpper |-> loc.targetVidUpper,
                           targetPidUpper |-> loc.targetPidUpper,
                           deviceInstanceID |-> deviceInstanceID,
                           actualVid |-> actualVid, actualPid |-> actualPid,
                           instanceSubKeyNames |-> rs.names, j |-> 1,
                           portName |-> <<>>]
    /\ UNCHANGED <<envVars, vid, pid, devices, ret, first, again>>

\* The record a child yields is appended when its Port is not empty
\* (serialfinder_windows.go:190-192).
WinAppend(devs, device) == IF device.Port # <<>> THEN Append(devs, device) ELSE devs

\* iterateSerialsWindowsWithRegistry up to its call of portCheck
\* (serialfinder_windows.go:201-218).
WinChildOpen ==
    /\ pc = "win_children"
    /\ loc.j <= Len(loc.instanceSubKeyNames)
    /\ LET instanceSubKeyName == loc.instanceSubKeyNames[loc.j]
           deviceParamsPath == DeviceParamsPath(loc.deviceInstanceID, instanceSubKeyName)
           e == OpenKey(deviceParamsPath)
           gv == GetStringValue(deviceParamsPath)
           h == Handle("deviceParamsKey", deviceParamsPath)
           o1 == Append(ops, Op("OpenKey", deviceParamsPath))
           o2 == Append(o1, Op("GetStringValue", deviceParamsPath))
       IN  IF e # "nil"
           THEN /\ loc' = [loc EXCEPT !.j = loc.j + 1]
                /\ ops' = o1
                /\ UNCHANGED <<pc, opened>>
           ELSE IF gv.err # "nil"
           THEN /\ loc' = [loc EXCEPT !.j = loc.j + 1]
                /\ ops' = Append(o2, Op("Close", deviceParamsPath))
                /\ opened' = Close(opened \cup {h}, h)
                /\ UNCHANGED pc
           ELSE /\ pc' = "win_probe"
                /\ loc' = [loc EXCEPT !.portName = gv.value]
                /\ ops' = o2
                /\ opened' = opened \cup {h}
    /\ UNCHANGED <<envVars, vid, pid, devices, ret, first, again>>

\* the probe takes every port for active
portCheckAlwaysTrue(portName) == TRUE

\* What portCheck(portName) returns: checkCOMPortActiveWindows returns false
\* when CreateFile fails and true otherwise (serialfinder_windows.go:231-242).
portCheck(portName) == CreateFile(portName) = "nil"

\* portCheck(portName), which is checkCOMPortActiveWindows up to its return
\* false or its deferred CloseHandle (serialfinder_windows.go:218, 231-239).
WinProbe ==
    /\ pc = "win_probe"
    /\ LET deviceParamsPath ==
               DeviceParamsPath(loc.deviceInstanceID, loc.instanceSubKeyNames[loc.j])
           o1 == Append(ops, Op("CreateFile", loc.portName))
       IN  IF ~portCheck(loc.portName)
           THEN /\ pc' = "win_children"
                /\ loc' = [loc EXCEPT !.j = loc.j + 1, !.portName = <<>>]
                /\ ops' = Append(o1, Op("Close", deviceParamsPath))
                /\ opened' = Close(opened, Handle("deviceParamsKey", deviceParamsPath))
           ELSE /\ pc' = "win_probe_close"
                /\ ops' = o1
                /\ opened' = opened \cup {Handle("port", loc.portName)}
                /\ UNCHANGED loc
    /\ UNCHANGED <<envVars, vid, pid, devices, ret, first, again>>

\* The handles still open once the probe has returned true and
\* iterateSerialsWindowsWithRegistry has returned
\* (serialfinder_windows.go:211, 240).
WinAfterProbe(handles, deviceParamsPath, portName) ==
    Close(Close(handles, Handle("port", portName)),
          Handle("deviceParamsKey", deviceParamsPath))

\* The probe returns true; the record is built and appended
\* (serialfinder_windows.go:240-241, 222-227, 190-192).
WinProbeClose ==
    /\ pc = "win_probe_close"
    /\ LET serialNumber == loc.instanceSubKeyNames[loc.j]
           deviceParamsPath == DeviceParamsPath(loc.deviceInstanceID, serialNumber)
           device == SerialDeviceInfo(serialNumber, loc.actualVid, loc.actualPid,
                                      loc.portName)
       IN  /\ devices' = WinAppend(devices, device)
           /\ ops' = ops \o <<Op("CloseHandle", loc.portName),
                              Op("Close", deviceParamsPath)>>
           /\ opened' = WinAfterProbe(opened, deviceParamsPath, loc.portName)
    /\ pc' = "win_children"
    /\ loc' = [loc EXCEPT !.j = loc.j + 1, !.portName = <<>>]
    /\ UNCHANGED <<envVars, vid, pid, ret, first, again>>

\* The children are done: the deferred Close of the instance key
\* (serialfinder_windows.go:176, 194).
WinInstanceDone ==
    /\ pc = "win_children"
    /\ loc.j > Len(loc.instanceSubKeyNames)
    /\ LET fullDeviceInstancePath == InstancePath(loc.deviceInstanceID)
       IN  /\ ops' = Append(ops, Op("Close", fullDeviceInstancePath))
           /\ opened' = Close(opened, Handle("deviceInstanceRegKey", fullDeviceInstancePath))
    /\ pc' = "win_instances"
    /\ loc' = [deviceInstanceIDs |-> loc.deviceInstanceIDs, i |-> loc.i + 1,
               targetVidUpper |-> loc.targetVidUpper,
               targetPidUpper |-> loc.targetPidUpper]
    /\ UNCHANGED <<envVars, vid, pid, devices, ret, first, again>>

\* return devices, nil and the deferred key.Close()
\* (serialfinder_windows.go:124, 196).
WinDone ==
    /\ pc = "win_instances"
    /\ loc.i > Len(loc.deviceInstanceIDs)
    /\ ops' = Append(ops, Op("Close", enumUSBPath))
    /\ opened' = Close(opened, Handle("key", enumUSBPath))
    /\ Return(vid, pid, devices, "nil")
    /\ UNCHANGED <<envVars, vid, pid>>

(***************************************************************************)
(* macOS: what executing `ioreg -r -c IOSerialBSDClient -l` gives: an      *)
(* error or nil, and the captured output, held as the lines bufio.Scanner  *)
(* yields from it.  A line longer than bufio.MaxScanTokenSize is held as   *)
(* TooLongLine: the scanner stops there with bufio.ErrTooLong.             *)
(***************************************************************************)
\* +-o FT232R@141  <class IOUSBHostDevice, id 0x432>
LineUSBHostDevice ==
    <<" ", " ", "+", "-", "o", " ", "F", "T", "2", "3", "2", "R", "@", "1",
      "4", "1", " ", " ", "<", "c", "l", "a", "s", "s", " ", "I", "O", "U",
      "S", "B", "H", "o", "s", "t", "D", "e", "v", "i", "c", "e", ",", " ",
      "i", "d", " ", "0", "x", "4", "3", "2", ">">>

\* +-o CH340@142  <class IOUSBDevice, id 0x555>
LineUSBDevice ==
    <<" ", " ", "+", "-", "o", " ", "C", "H", "3", "4", "0", "@", "1", "4",
      "2", " ", " ", "<", "c", "l", "a", "s", "s", " ", "I", "O", "U", "S",
      "B", "D", "e", "v", "i", "c", "e", ",", " ", "i", "d", " ", "0", "x",
      "5", "5", "5", ">">>

\* +-o AppleUSBHostInterface@0  <class AppleUSBHostInterface>
LineInterface ==
    <<" ", " ", " ", " ", "+", "-", "o", " ", "A", "p", "p", "l", "e", "U",
      "S", "B", "H", "o", "s", "t", "I", "n", "t", "e", "r", "f", "a", "c",
      "e", "@", "0", " ", " ", "<", "c", "l", "a", "s", "s", " ", "A", "p",
      "p", "l", "e", "U", "S", "B", "H", "o", "s", "t", "I", "n", "t", "e",
      "r", "f", "a", "c", "e", ">">>

\* +-o IOSerialBSDClient  <class IOSerialBSDClient, id 0x438>
LineSerialClient ==
    <<" ", " ", " ", " ", " ", " ", "+", "-", "o", " ", "I", "O", "S", "e",
      "r", "i", "a", "l", "B", "S", "D", "C", "l", "i", "e", "n", "t", " ",
      " ", "<", "c", "l", "a", "s", "s", " ", "I", "O", "S", "e", "r", "i",
      "a", "l", "B", "S", "D", "C", "l", "i", "e", "n", "t", ",", " ", "i",
      "d", " ", "0", "x", "4", "3", "8", ">">>

\* {
LineOpen ==
    <<" ", " ", "{">>

\* }
LineClose ==
    <<" ", " ", "}">>

\* "idVendor" = 1027
LineVendor1027 ==
    <<" ", " ", " ", " ", "\"", "i", "d", "V", "e", "n", "d", "o", "r", "\"",
      " ", "=", " ", "1", "0", "2", "7">>

\* "idProduct" = 24577
LineProduct24577 ==
    <<" ", " ", " ", " ", "\"", "i", "d", "P", "r", "o", "d", "u", "c", "t",
      "\"", " ", "=", " ", "2", "4", "5", "7", "7">>

\* "kUSBSerialNumberString" = "SN1"
LineSerialSN1 ==
    <<" ", " ", " ", " ", "\"", "k", "U", "S", "B", "S", "e", "r", "i", "a",
      "l", "N", "u", "m", "b", "e", "r", "S", "t", "r", "i", "n", "g", "\"",
      " ", "=", " ", "\"", "S", "N", "1", "\"">>

\* "idVendor" = 0x1a86
LineVendorHex ==
    <<" ", " ", " ", " ", "\"", "i", "d", "V", "e", "n", "d", "o", "r", "\"",
      " ", "=", " ", "0", "x", "1", "a", "8", "6">>

\* "idProduct" = 0x7523,
LineProductHex ==
    <<" ", " ", " ", " ", "\"", "i", "d", "P", "r", "o", "d", "u", "c", "t",
      "\"", " ", "=", " ", "0", "x", "7", "5", "2", "3", ",">>

\* "idVendor" = zz
LineVendorBad ==
    <<" ", " ", " ", " ", "\"", "i", "d", "V", "e", "n", "d", "o", "r", "\"",
      " ", "=", " ", "z", "z">>

\* "IOCalloutDevice" = "/dev/cu.usbserial-SN1"
LineCallout1 ==
    <<" ", " ", " ", " ", " ", " ", " ", " ", "\"", "I", "O", "C", "a", "l",
      "l", "o", "u", "t", "D", "e", "v", "i", "c", "e", "\"", " ", "=", " ",
      "\"", "/", "d", "e", "v", "/", "c", "u", ".", "u", "s", "b", "s", "e",
      "r", "i", "a", "l", "-", "S", "N", "1", "\"">>

\* "IOCalloutDevice" = "/dev/cu.wchusbserial1"
LineCallout2 ==
    <<" ", " ", " ", " ", " ", " ", " ", " ", "\"", "I", "O", "C", "a", "l",
      "l", "o", "u", "t", "D", "e", "v", "i", "c", "e", "\"", " ", "=", " ",
      "\"", "/", "d", "e", "v", "/", "c", "u", ".", "w", "c", "h", "u", "s",
      "b", "s", "e", "r", "i", "a", "l", "1", "\"">>

\* "IOCalloutDevice" = ""
LineCalloutEmpty ==
    <<" ", " ", " ", " ", " ", " ", " ", " ", "\"", "I", "O", "C", "a", "l",
      "l", "o", "u", "t", "D", "e", "v", "i", "c", "e", "\"", " ", "=", " ",
      "\"", "\"">>

TooLongLine == <<"bufio.ErrTooLong">>

MacKinds ==
    { \* a USB device with a serial number, and its serial client
      <<LineUSBHostDevice, LineOpen, LineVendor1027, LineProduct24577,
        LineSerialSN1, LineClose, LineSerialClient, LineCallout1>>,
      \* hexadecimal properties, no serial number
      <<LineUSBDevice, LineVendorHex, LineProductHex, LineSerialClient,
        LineCallout2>>,
      \* a USB device without idVendor
      <<LineUSBHostDevice, LineProduct24577, LineSerialClient, LineCallout1>>,
      \* a USB device whose idVendor does not parse
      <<LineUSBHostDevice, LineVendorBad, LineProduct24577, LineSerialClient,
        LineCallout1>>,
      \* a serial client below a block that is no USB device
      <<LineInterface, LineSerialClient, LineCallout2>>,
      \* one more serial client, with no block header of its own parent
      <<LineSerialClient, LineCallout2>>,
      \* a serial client without a callout path
      <<LineUSBHostDevice, LineVendor1027, LineProduct24577, LineSerialClient,
        LineCalloutEmpty>>,
      \* a USB device without idVendor whose serial client gives idVendor itself
      <<LineUSBHostDevice, LineProduct24577, LineSerialClient, LineVendor1027,
        LineCallout1>>,
      \* a line the scanner cannot hold
      <<TooLongLine>> }

RECURSIVE Flatten(_)
Flatten(seqs) == IF seqs = <<>> THEN <<>> ELSE Head(seqs) \o Flatten(Tail(seqs))

MkIoreg(sections) == [err |-> "nil", output |-> Flatten(sections)]

NoIoreg == MkIoreg(<<>>)

MacEnvs ==
    {MkIoreg(sections) : sections \in SeqsUpTo(MacKinds, MaxDevices)}
    \cup {[NoIoreg EXCEPT !.err = "exit status 1"],
          [err |-> "exit status 1",
           output |-> <<LineUSBHostDevice, LineVendor1027, LineProduct24577,
                        LineSerialClient, LineCallout1>>]}

\* executor.Execute("ioreg", "-r", "-c", "IOSerialBSDClient", "-l")
\* (serialfinder_darwin.go:197-213): stdout is returned with the error too.
\* An Execute that returns what the command wrote and drops cmd.Run()'s error.
ExecuteDropsError(name) == [out |-> ioreg.output, err |-> "nil"]

Execute(name) == [out |-> ioreg.output, err |-> ioreg.err]

(***************************************************************************)
(* macOS: parseHexValue, parseStringValue, the regular expression          *)
(***************************************************************************)
Quote == "\""

HexUpper == <<"0", "1", "2", "3", "4", "5", "6", "7", "8", "9",
              "A", "B", "C", "D", "E", "F">>

\* The value of a digit, or -1.
DigitValue(c) ==
    LET u == ToUpperChar(c)
    IN  IF IsIn(u, HexUpper) THEN IndexIn(u, HexUpper) - 1 ELSE -1

RECURSIVE DigitsValue(_, _)
DigitsValue(digits, base) ==
    IF digits = <<>> THEN 0
    ELSE DigitsValue(SubSeq(digits, 1, Len(digits) - 1), base) * base
         + DigitValue(digits[Len(digits)])

\* strconv.ParseInt(s, base, 64) for base 10 and 16.  The environments hold
\* numbers of at most seven digits, where no int64 overflow (ErrRange) occurs.
ParseInt(s, base) ==
    LET signed == Len(s) > 0 /\ s[1] \in {"+", "-"}
        digits == IF signed THEN Tail(s) ELSE s
        valid == /\ digits # <<>>
                 /\ \A i \in 1..Len(digits) :
                        DigitValue(digits[i]) >= 0 /\ DigitValue(digits[i]) < base
    IN  IF ~valid THEN [err |-> "ErrSyntax", n |-> 0]
        ELSE [err |-> "nil",
              n |-> IF signed /\ s[1] = "-" THEN 0 - DigitsValue(digits, base)
                    ELSE DigitsValue(digits, base)]

\* A parseHexValue that knows the prefix 0x only, not 0X.
parseHexValueLowerPrefix(value) ==
    LET v == TrimSuffix(TrimSpace(value), <<",">>)
    IN  IF HasPrefix(v, <<"0", "x">>)
        THEN ParseInt(SubSeq(v, 3, Len(v)), 16)
        ELSE ParseInt(v, 10)

\* parseHexValue (serialfinder_darwin.go:353-364)
parseHexValue(value) ==
    LET v == TrimSuffix(TrimSpace(value), <<",">>)
    IN  IF HasPrefix(v, <<"0", "x">>) \/ HasPrefix(v, <<"0", "X">>)
        THEN ParseInt(SubSeq(v, 3, Len(v)), 16)
        ELSE ParseInt(v, 10)

\* parseStringValue (serialfinder_darwin.go:367-376).  value[1 : len(value)-1]
\* of a value that is one quote character is a slice out of range: a panic.
parseStringValue(value) ==
    LET v == TrimSuffix(TrimSpace(value), <<",">>)
    IN  IF HasPrefix(v, <<Quote>>) /\ HasSuffix(v, <<Quote>>)
        THEN IF Len(v) < 2 THEN [panic |-> TRUE, s |-> <<>>]
             ELSE [panic |-> FALSE, s |-> SubSeq(v, 2, Len(v) - 1)]
        ELSE [panic |-> FALSE, s |-> v]

RECURSIVE HexOf(_)
HexOf(n) == IF n < 16 THEN <<HexUpper[n + 1]>>
            ELSE Append(HexOf(n \div 16), HexUpper[(n % 16) + 1])

PadZero(s, width) ==
    IF Len(s) >= width THEN s ELSE [i \in 1..(width - Len(s)) |-> "0"] \o s

\* fmt.Sprintf("%04X", n): the width counts the sign.
Sprintf04X(n) ==
    IF n >= 0 THEN PadZero(HexOf(n), 4) ELSE <<"-">> \o PadZero(HexOf(0 - n), 3)

\* regexp `"([^"]+)"\s*=\s*(.*)`, FindStringSubmatch: the leftmost match.
\* found is len(match) == 3, key is match[1], value is match[2].
reKeyValue(line) ==
    LET n == Len(line)
        \* the first quote after position i, or 0
        NextQuote(i) ==
            LET js == {j \in (i + 1)..n : line[j] = Quote}
            IN  IF js = {} THEN 0 ELSE SetMin(js)
        \* the first position from k on that holds no white space, or n + 1
        SkipSpace(k) ==
            LET ms == {m \in k..n : ~IsSpace(line[m])}
            IN  IF ms = {} THEN n + 1 ELSE SetMin(ms)
        Match(i) ==
            /\ line[i] = Quote
            /\ NextQuote(i) >= i + 2
            /\ SkipSpace(NextQuote(i) + 1) <= n
            /\ line[SkipSpace(NextQuote(i) + 1)] = "="
        starts == {i \in 1..n : Match(i)}
    IN  IF starts = {} THEN [found |-> FALSE, key |-> <<>>, value |-> <<>>]
        ELSE LET i == SetMin(starts)
                 j == NextQuote(i)
                 e == SkipSpace(j + 1)
             IN  [found |-> TRUE,
                  key |-> SubSeq(line, i + 1, j - 1),
                  value |-> SubSeq(line, SkipSpace(e + 1), n)]

(***************************************************************************)
(* macOS: getSerialDevicesWithExecutor (serialfinder_darwin.go:223-349)    *)
(***************************************************************************)
KeyIdVendor == <<"i", "d", "V", "e", "n", "d", "o", "r">>
KeyIdProduct == <<"i", "d", "P", "r", "o", "d", "u", "c", "t">>
KeyUSBSerialNumber ==
    <<"U", "S", "B", " ", "S", "e", "r", "i", "a", "l", " ", "N", "u", "m", "b", "e", "r">>
KeykUSBSerialNumberString ==
    <<"k", "U", "S", "B", "S", "e", "r", "i", "a", "l", "N", "u", "m", "b", "e", "r",
      "S", "t", "r", "i", "n", "g">>
KeyIOCalloutDevice ==
    <<"I", "O", "C", "a", "l", "l", "o", "u", "t", "D", "e", "v", "i", "c", "e">>

\* A context for a new USB device that keeps the serial number of the old one.
DeviceWithOldSerial ==
    IF loc.currentUSBDevice = None THEN SerialDeviceInfo(<<>>, <<>>, <<>>, <<>>)
    ELSE SerialDeviceInfo(loc.currentUSBDevice.SerialNumber, <<>>, <<>>, <<>>)

\* &SerialDeviceInfo{}
EmptyDevice == SerialDeviceInfo(<<>>, <<>>, <<>>, <<>>)

\* A header handling that resets the context at a USB device header and
\* keeps it at every other header.
MacHeaderKeepsContext(line, cur) ==
    IF /\ HasPrefix(line, <<"+", "-", "o">>)
       /\ \/ Contains(line, <<"I", "O", "U", "S", "B", "D", "e", "v", "i", "c", "e">>)
          \/ Contains(line, <<"I", "O", "U", "S", "B", "H", "o", "s", "t",
                              "D", "e", "v", "i", "c", "e">>)
    THEN EmptyDevice
    ELSE cur

\* The context after a line: the block headers (serialfinder_darwin.go:262-276).
MacHeader(line, cur) ==
    IF HasPrefix(line, <<"+", "-", "o">>)
    THEN IF \/ Contains(line, <<"I", "O", "U", "S", "B", "D", "e", "v", "i", "c", "e">>)
            \/ Contains(line, <<"I", "O", "U", "S", "B", "H", "o", "s", "t",
                                "D", "e", "v", "i", "c", "e">>)
         THEN EmptyDevice
         ELSE IF ~Contains(line, <<"I", "O", "S", "e", "r", "i", "a", "l", "B", "S", "D",
                                   "C", "l", "i", "e", "n", "t">>)
         THEN None
         ELSE cur
    ELSE cur

\* The context after a property line (serialfinder_darwin.go:284-306).
MacProperty(key, value, cur) ==
    IF cur = None THEN [panic |-> FALSE, cur |-> cur]
    ELSE IF key = KeyIdVendor
    THEN LET hexVal == parseHexValue(value)
         IN  [panic |-> FALSE,
              cur |-> IF hexVal.err = "nil"
                      THEN [cur EXCEPT !.Vid = Sprintf04X(hexVal.n)] ELSE cur]
    ELSE IF key = KeyIdProduct
    THEN LET hexVal == parseHexValue(value)
         IN  [panic |-> FALSE,
              cur |-> IF hexVal.err = "nil"
                      THEN [cur EXCEPT !.Pid = Sprintf04X(hexVal.n)] ELSE cur]
    ELSE IF key = KeyUSBSerialNumber \/ key = KeykUSBSerialNumberString
    THEN LET sn == parseStringValue(value)
         IN  [panic |-> sn.panic,
              cur |-> IF sn.s # <<>>
                      THEN [cur EXCEPT !.SerialNumber = sn.s] ELSE cur]
    ELSE [panic |-> FALSE, cur |-> cur]

\* The list after an IOCalloutDevice line (serialfinder_darwin.go:310-333).
MacCallout(value, cur, devs, targetVidUpper, targetPidUpper) ==
    IF cur # None /\ cur.Vid # <<>> /\ cur.Pid # <<>>
    THEN LET portPath == parseStringValue(value)
         IN  [panic |-> portPath.panic,
              devices |->
                 IF /\ portPath.s # <<>>
                    /\ FilterMatch(targetVidUpper, cur.Vid)
                    /\ FilterMatch(targetPidUpper, cur.Pid)
                 THEN Append(devs, SerialDeviceInfo(cur.SerialNumber, cur.Vid,
                                                    cur.Pid, portPath.s))
                 ELSE devs]
    ELSE [panic |-> FALSE, devices |-> devs]

\* One iteration of the scanner loop (serialfinder_darwin.go:255-342).
MacLoopBody(text, cur, devs, targetVidUpper, targetPidUpper) ==
    LET line == TrimSpace(text)
        cur1 == MacHeader(line, cur)
        match == reKeyValue(line)
        key == match.key
        value == TrimSpace(match.value)
        prop == MacProperty(key, value, cur1)
        call == MacCallout(value, prop.cur, devs, targetVidUpper, targetPidUpper)
    IN  IF ~match.found THEN [panic |-> FALSE, cur |-> cur1, devices |-> devs]
        ELSE IF prop.panic THEN [panic |-> TRUE, cur |-> cur1, devices |-> devs]
        ELSE IF key = KeyIOCalloutDevice
        THEN [panic |-> call.panic, cur |-> prop.cur, devices |-> call.devices]
        ELSE [panic |-> FALSE, cur |-> prop.cur, devices |-> devs]

\* The call up to its loop (serialfinder_darwin.go:223-253).
MacCall(v, p) ==
    /\ pc = "idle"
    /\ platform = "darwin"
    /\ vid' = v
    /\ pid' = p
    /\ ops' = <<Op("Execute", "ioreg")>>
    /\ opened' = {}
    /\ LET ex == Execute("ioreg")
       IN  IF ex.err # "nil"
           THEN ReturnError(v, p, "failed to execute ioreg")
           ELSE IF Len(ex.out) = 0
           THEN Return(v, p, NewDevices, "nil")
           ELSE /\ pc' = "mac_scan"
                /\ devices' = NewDevices
                /\ loc' = [n |-> 1, currentUSBDevice |-> None,
                           targetVidUpper |-> ToUpper(v),
                           targetPidUpper |-> ToUpper(p)]
                /\ ret' = None
                /\ UNCHANGED <<first, again>>
    /\ UNCHANGED envVars

\* scanner.Scan() yields the next line of ioregOutput, which the loop handles.
MacLine ==
    /\ pc = "mac_scan"
    /\ loc.n <= Len(ioreg.output)
    /\ ioreg.output[loc.n] # TooLongLine
    /\ LET out == MacLoopBody(ioreg.output[loc.n], loc.currentUSBDevice, devices,
                              loc.targetVidUpper, loc.targetPidUpper)
       IN  IF out.panic
           THEN /\ pc' = "panic"
                /\ UNCHANGED <<devices, loc>>
           ELSE /\ devices' = out.devices
                /\ loc' = [loc EXCEPT !.n = loc.n + 1, !.currentUSBDevice = out.cur]
                /\ UNCHANGED pc
    /\ UNCHANGED <<envVars, vid, pid, ops, opened, ret, first, again>>

\* scanner.Scan() fails; scanner.Err() is not nil (serialfinder_darwin.go:344-346).
MacScanError ==
    /\ pc = "mac_scan"
    /\ loc.n <= Len(ioreg.output)
    /\ ioreg.output[loc.n] = TooLongLine
    /\ ReturnError(vid, pid, "error scanning ioreg output")
    /\ UNCHANGED <<envVars, vid, pid, ops, opened>>

\* The output is exhausted: return devices, nil (serialfinder_darwin.go:348).
MacDone ==
    /\ pc = "mac_scan"
    /\ loc.n > Len(ioreg.output)
    /\ Return(vid, pid, devices, "nil")
    /\ UNCHANGED <<envVars, vid, pid, ops, opened>>

(***************************************************************************)
(* the system                                                              *)
(***************************************************************************)
Init ==
    /\ platform \in {"linux", "windows", "darwin"}
    /\ fsys \in (IF platform = "linux" THEN LinuxEnvs ELSE {NoFsys})
    /\ reg \in (IF platform = "windows" THEN WindowsEnvs ELSE {NoReg})
    /\ ioreg \in (IF platform = "darwin" THEN MacEnvs ELSE {NoIoreg})
    /\ checkPortActive = "checkCOMPortActiveWindows"
    /\ pc = "idle"
    /\ vid = <<>>
    /\ pid = <<>>
    /\ devices = <<>>
    /\ loc = NoLocals
    /\ ops = <<>>
    /\ opened = {}
    /\ ret = None
    /\ first = None
    /\ again = FALSE

Next ==
    \/ \E fp \in FilterPairs : LinuxCall(fp[1], fp[2])
    \/ LinuxEntry
    \/ LinuxDone
    \/ \E fp \in FilterPairs : WinCall(fp[1], fp[2])
    \/ WinInstance
    \/ WinChildOpen
    \/ WinProbe
    \/ WinProbeClose
    \/ WinInstanceDone
    \/ WinDone
    \/ \E fp \in FilterPairs : MacCall(fp[1], fp[2])
    \/ MacLine
    \/ MacScanError
    \/ MacDone

Spec == Init /\ [][Next]_vars

(***************************************************************************)
(* macOS: the number formats of idVendor and idProduct                     *)
(* (TestParseHexValue, part_001:27-64, and the dumps of part_001:105-216)  *)
(***************************************************************************)
\* "key" = value
MacPropertyLine(key, value) ==
    <<" ", " ", " ", " ", Quote>> \o key \o <<Quote, " ", "=", " ">> \o value

\* The values a property line gives:
\*   1155
\*   0x573C
\*   0X4d2
\*   1234,
\*   0x4D2,
\*   0
\*   0x0
\*   65535
\*   0xffff
\*   abc
\*   ABC
\*   (nothing)
\*   0x
\*   0xGHI
\*   12 34
\*   1155    // VID: 0x0483
\*   1027 ,
\*   65536
\*   70000
\*   -1
\*   1234567890
MacNumberTexts ==
    { <<"1", "1", "5", "5">>,
      <<"0", "x", "5", "7", "3", "C">>,
      <<"0", "X", "4", "d", "2">>,
      <<"1", "2", "3", "4", ",">>,
      <<"0", "x", "4", "D", "2", ",">>,
      <<"0">>,
      <<"0", "x", "0">>,
      <<"6", "5", "5", "3", "5">>,
      <<"0", "x", "f", "f", "f", "f">>,
      <<"a", "b", "c">>,
      <<"A", "B", "C">>,
      <<>>,
      <<"0", "x">>,
      <<"0", "x", "G", "H", "I">>,
      <<"1", "2", " ", "3", "4">>,
      <<"1", "1", "5", "5", " ", " ", " ", " ", "/", "/", " ", "V", "I", "D", ":", " ", "0", "x", "0", "4", "8", "3">>,
      <<"1", "0", "2", "7", " ", ",">>,
      <<"6", "5", "5", "3", "6">>,
      <<"7", "0", "0", "0", "0">>,
      <<"-", "1">>,
      <<"1", "2", "3", "4", "5", "6", "7", "8", "9", "0">> }

\* One USB device and its serial client; the vendor, or the product, is given
\* twice.
MacNumberEnvs ==
    {MkIoreg(<<<<LineUSBHostDevice,
                 MacPropertyLine(KeyIdVendor, a), MacPropertyLine(KeyIdVendor, b),
                 LineProduct24577, LineSerialClient, LineCallout1>>>>) :
        a \in MacNumberTexts, b \in MacNumberTexts}
    \cup {MkIoreg(<<<<LineUSBHostDevice, LineVendor1027,
                      MacPropertyLine(KeyIdProduct, a), MacPropertyLine(KeyIdProduct, b),
                      LineSerialClient, LineCallout1>>>>) :
             a \in MacNumberTexts, b \in MacNumberTexts}

MacNumberFilterPairs ==
    {<<<<>>, <<>>>>, <<<<"0", "4", "8", "3">>, <<>>>>}

InitMacNumbers ==
    /\ platform = "darwin"
    /\ fsys = NoFsys
    /\ reg = NoReg
    /\ ioreg \in MacNumberEnvs
    /\ checkPortActive = "checkCOMPortActiveWindows"
    /\ pc = "idle"
    /\ vid = <<>>
    /\ pid = <<>>
    /\ devices = <<>>
    /\ loc = NoLocals
    /\ ops = <<>>
    /\ opened = {}
    /\ ret = None
    /\ first = None
    /\ again = FALSE

NextMacNumbers ==
    \/ \E fp \in MacNumberFilterPairs : MacCall(fp[1], fp[2])
    \/ MacLine
    \/ MacDone

SpecMacNumbers == InitMacNumbers /\ [][NextMacNumbers]_vars

(***************************************************************************)
(* macOS: the block structure of the dumps of the tests                    *)
(* (part_001:104-216) and the string values of TestParseStringValue        *)
(* (part_001:66-96)                                                        *)
(***************************************************************************)
\* +-o AppleUSBHostCompositeDevice  <class AppleUSBHostCompositeDevice>
LineComposite ==
    <<" ", " ">> \o <<"+", "-", "o", " ", "A", "p", "p", "l", "e", "U", "S", "B", "H", "o", "s", "t", "C", "o", "m", "p", "o", "s", "i", "t", "e", "D", "e", "v", "i", "c", "e", " ", " ", "<", "c", "l", "a", "s", "s", " ", "A", "p", "p", "l", "e", "U", "S", "B", "H", "o", "s", "t", "C", "o", "m", "p", "o", "s", "i", "t", "e", "D", "e", "v", "i", "c", "e", ">">>

Text1155 == <<"1", "1", "5", "5">>
Text22332 == <<"2", "2", "3", "3", "2">>
\* "SERIAL123", "A1", "B2", ""
TextSerial123 == <<"\"", "S", "E", "R", "I", "A", "L", "1", "2", "3", "\"">>
TextA1 == <<"\"", "A", "1", "\"">>
TextB2 == <<"\"", "B", "2", "\"">>
TextEmptyString == <<"\"", "\"">>
\* "/dev/cu.usbmodemSERIAL1231"
LineCalloutModem ==
    MacPropertyLine(KeyIOCalloutDevice, <<"\"", "/", "d", "e", "v", "/", "c", "u", ".", "u", "s", "b", "m", "o", "d", "e", "m", "S", "E", "R", "I", "A", "L", "1", "2", "3", "1", "\"">>)

\* The string values a serial-number line gives:
\*   "Test",    "Test,"    """    "a"b"c"    "Hello, World!"    MyDevice
\*   Test,    "  Spaced  "    "
MacStringTexts ==
    { <<"\"", "T", "e", "s", "t", "\"", ",">>,
      <<"\"", "T", "e", "s", "t", ",", "\"">>,
      <<"\"", "\"", "\"">>,
      <<"\"", "a", "\"", "b", "\"", "c", "\"">>,
      <<"\"", "H", "e", "l", "l", "o", ",", " ", "W", "o", "r", "l", "d", "!", "\"">>,
      <<"M", "y", "D", "e", "v", "i", "c", "e">>,
      <<"T", "e", "s", "t", ",">>,
      <<"\"", " ", " ", "S", "p", "a", "c", "e", "d", " ", " ", "\"">>,
      <<"\"">> }

\* A USB device with vendor 1155 and product 22332 and the lines given, and
\* its serial client.
MacDeviceBlock(properties, between) ==
    <<LineUSBHostDevice, LineOpen,
      MacPropertyLine(KeyIdProduct, Text22332), MacPropertyLine(KeyIdVendor, Text1155)>>
    \o properties \o <<LineClose>> \o between \o <<LineSerialClient, LineCalloutModem>>

MacBlockKinds ==
    { \* the device of mockIoregOutputSingleDevice: two headers lie between the
      \* USB device and its serial client
      MacDeviceBlock(<<MacPropertyLine(KeykUSBSerialNumberString, TextSerial123)>>,
                     <<LineComposite, LineInterface>>),
      \* the serial client directly below the USB device
      MacDeviceBlock(<<MacPropertyLine(KeykUSBSerialNumberString, TextSerial123)>>, <<>>),
      \* two serial numbers
      MacDeviceBlock(<<MacPropertyLine(KeyUSBSerialNumber, TextA1),
                       MacPropertyLine(KeykUSBSerialNumberString, TextB2)>>, <<>>),
      \* a serial number and an empty one
      MacDeviceBlock(<<MacPropertyLine(KeyUSBSerialNumber, TextA1),
                       MacPropertyLine(KeykUSBSerialNumberString, TextEmptyString)>>, <<>>),
      \* no serial number, other IDs
      <<LineUSBDevice, LineVendorHex, LineProductHex, LineSerialClient, LineCallout2>>,
      \* a serial client that gives its path before any ID, below a USB device
      \* without IDs
      <<LineUSBHostDevice, LineSerialClient, LineCallout1, LineVendor1027,
        LineProduct24577>> }
    \cup {MacDeviceBlock(<<MacPropertyLine(KeyUSBSerialNumber, t)>>, <<>>) :
             t \in MacStringTexts}

MacBlockEnvs == {MkIoreg(sections) : sections \in SeqsUpTo(MacBlockKinds, MaxDevices)}

\* The filters of the tests: none, "0483"/"573C", "0x483"/"0x573c".
MacBlockFilterPairs ==
    {<<<<>>, <<>>>>,
     <<<<"0", "4", "8", "3">>, <<"5", "7", "3", "C">>>>,
     <<<<"0", "x", "4", "8", "3">>, <<"0", "x", "5", "7", "3", "c">>>>}

InitMacBlocks ==
    /\ platform = "darwin"
    /\ fsys = NoFsys
    /\ reg = NoReg
    /\ ioreg \in MacBlockEnvs
    /\ checkPortActive = "checkCOMPortActiveWindows"
    /\ pc = "idle"
    /\ vid = <<>>
    /\ pid = <<>>
    /\ devices = <<>>
    /\ loc = NoLocals
    /\ ops = <<>>
    /\ opened = {}
    /\ ret = None
    /\ first = None
    /\ again = FALSE

NextMacBlocks ==
    \/ \E fp \in MacBlockFilterPairs : MacCall(fp[1], fp[2])
    \/ MacLine
    \/ MacDone

SpecMacBlocks == InitMacBlocks /\ [][NextMacBlocks]_vars

(***************************************************************************)
(* The implementations of src/serialfinder_linux.go: GetSerialDevices of   *)
(* Linux on os directly (14-121) and GetSerialDevices of Windows on        *)
(* registry directly (174-267)                                             *)
(***************************************************************************)
\* checkForVIDPIDFiles (serialfinder_linux.go:117-121)
checkForVIDPIDFiles(dir) ==
    Stat(Join(dir, "idVendor")) = "nil" /\ Stat(Join(dir, "idProduct")) = "nil"

\* findSerialDeviceInfoDir (serialfinder_linux.go:92-114): the parent and the
\* grandparent of the resolved path are tried; "" is <<>>.
findSerialDeviceInfoDir(devicePath) ==
    LET sysTTYPath == <<"/", "sys", "class", "tty", Base(devicePath), "device">>
        ev == EvalSymlinks(sysTTYPath)
        parentDir == Dir(ev.path)
        grandparentDir == Dir(parentDir)
    IN  IF ev.err # "nil" THEN <<>>
        ELSE IF checkForVIDPIDFiles(parentDir) THEN parentDir
        ELSE IF checkForVIDPIDFiles(grandparentDir) THEN grandparentDir
        ELSE <<>>

\* The list after one iteration of the loop (serialfinder_linux.go:27-86).
GetSerialDevicesLinuxLoopBody(entry, v, p, devs) ==
    LET symlinkPath == Join(serialByIDPath, entry.name)
        ev == EvalSymlinks(symlinkPath)
        usbDir == findSerialDeviceInfoDir(ev.path)
        idVendor == ReadFile(Join(usbDir, "idVendor"))
        idProduct == ReadFile(Join(usbDir, "idProduct"))
        vidStr == ToUpper(TrimSpace(idVendor.data))
        pidStr == ToUpper(TrimSpace(idProduct.data))
        serialNumber == ReadFile(Join(usbDir, "serial"))
    IN  IF entry.isDir THEN devs
        ELSE IF ev.err # "nil" THEN devs
        ELSE IF usbDir = <<>> THEN devs
        ELSE IF idVendor.err # "nil" THEN devs
        ELSE IF idProduct.err # "nil" THEN devs
        ELSE IF vidStr # <<>> /\ vidStr # v THEN devs
        ELSE IF pidStr # <<>> /\ pidStr # p THEN devs
        ELSE Append(devs,
                    SerialDeviceInfo(IF serialNumber.err # "nil" THEN <<>>
                                     ELSE TrimSpace(serialNumber.data),
                                     vidStr, pidStr, symlinkPath))

RECURSIVE GetSerialDevicesLinuxLoop(_, _, _, _)
GetSerialDevicesLinuxLoop(entries, v, p, devs) ==
    IF entries = <<>> THEN devs
    ELSE GetSerialDevicesLinuxLoop(Tail(entries), v, p,
                                   GetSerialDevicesLinuxLoopBody(Head(entries), v, p, devs))

\* GetSerialDevices of Linux (serialfinder_linux.go:14-89)
GetSerialDevicesLinux(v, p) ==
    /\ pc = "idle"
    /\ platform = "linux"
    /\ vid' = v
    /\ pid' = p
    /\ ops' = <<Op("ReadDir", serialByIDPath)>>
    /\ opened' = {}
    /\ LET rd == ReadDir(serialByIDPath)
       IN  IF rd.err # "nil" THEN ReturnError(v, p, rd.err)
           ELSE Return(v, p, GetSerialDevicesLinuxLoop(rd.entries, v, p, NewDevices), "nil")
    /\ UNCHANGED envVars

\* strings.Split(s, sep) for a separator of one character
RECURSIVE Split(_, _)
Split(s, sep) ==
    LET at == {i \in 1..Len(s) : s[i] = sep}
    IN  IF at = {} THEN <<s>>
        ELSE <<SubSeq(s, 1, SetMin(at) - 1)>> \o Split(SubSeq(s, SetMin(at) + 1, Len(s)), sep)

\* iterateSerialsWindows (serialfinder_linux.go:220-247).  Split(deviceID,
\* "&")[0][4:] and [1][4:] are out of range, a panic, for an ID with fewer
\* pieces or shorter ones.
iterateSerialsWindows(serial, deviceID) ==
    LET deviceParamsKeyPath == DeviceParamsPath(deviceID, serial)
        portName == GetStringValue(deviceParamsKeyPath)
        pieces == Split(deviceID, "&")
    IN  IF OpenKey(deviceParamsKeyPath) # "nil" THEN [panic |-> FALSE, device |-> None]
        ELSE IF portName.err # "nil" THEN [panic |-> FALSE, device |-> None]
        ELSE IF CreateFile(portName.value) # "nil" THEN [panic |-> FALSE, device |-> None]
        ELSE IF Len(pieces) < 2 \/ Len(pieces[1]) < 4 \/ Len(pieces[2]) < 4
        THEN [panic |-> TRUE, device |-> None]
        ELSE [panic |-> FALSE,
              device |-> SerialDeviceInfo(serial, SubSeq(pieces[1], 5, Len(pieces[1])),
                                          SubSeq(pieces[2], 5, Len(pieces[2])),
                                          portName.value)]

\* The loop over the serials of one device ID (serialfinder_linux.go:207-212).
RECURSIVE GetSerialDevicesWindowsSerials(_, _, _)
GetSerialDevicesWindowsSerials(serials, deviceID, out) ==
    IF serials = <<>> \/ out.panic THEN out
    ELSE LET it == iterateSerialsWindows(Head(serials), deviceID)
         IN  GetSerialDevicesWindowsSerials(
                 Tail(serials), deviceID,
                 [panic |-> it.panic,
                  devices |-> IF it.device # None THEN Append(out.devices, it.device)
                              ELSE out.devices])

\* The loop over the device IDs (serialfinder_linux.go:191-214).
RECURSIVE GetSerialDevicesWindowsLoop(_, _, _, _)
GetSerialDevicesWindowsLoop(deviceIDs, v, p, out) ==
    IF deviceIDs = <<>> \/ out.panic THEN out
    ELSE LET deviceID == Head(deviceIDs)
             serials == ReadSubKeyNames(InstancePath(deviceID))
             next ==
                 IF ~Contains(deviceID, <<"V", "I", "D", "_">> \o v
                                        \o <<"&", "P", "I", "D", "_">> \o p)
                 THEN out
                 ELSE IF OpenKey(InstancePath(deviceID)) # "nil" THEN out
                 ELSE IF serials.err # "nil" THEN out
                 ELSE GetSerialDevicesWindowsSerials(serials.names, deviceID, out)
         IN  GetSerialDevicesWindowsLoop(Tail(deviceIDs), v, p, next)

\* GetSerialDevices of Windows (serialfinder_linux.go:174-217); the deferred
\* Close calls have run when it returns.
GetSerialDevicesWindows(v, p) ==
    /\ pc = "idle"
    /\ platform = "windows"
    /\ vid' = v
    /\ pid' = p
    /\ ops' = <<Op("OpenKey", enumUSBPath)>>
    /\ opened' = {}
    /\ LET deviceIDs == ReadSubKeyNames(enumUSBPath)
           out == GetSerialDevicesWindowsLoop(deviceIDs.names, v, p,
                                              [panic |-> FALSE, devices |-> NewDevices])
       IN  IF RegistryOpenKey(enumUSBPath) # "nil" \/ OpenKey(enumUSBPath) # "nil"
           THEN ReturnError(v, p, "ERROR_ACCESS_DENIED")
           ELSE IF deviceIDs.err # "nil" THEN ReturnError(v, p, deviceIDs.err)
           ELSE IF out.panic
           THEN /\ pc' = "panic"
                /\ UNCHANGED <<devices, loc, ret, first, again>>
           ELSE Return(v, p, out.devices, "nil")
    /\ UNCHANGED envVars

InitOld ==
    /\ platform \in {"linux", "windows"}
    /\ fsys \in (IF platform = "linux" THEN LinuxEnvs ELSE {NoFsys})
    /\ reg \in (IF platform = "windows" THEN WindowsEnvs ELSE {NoReg})
    /\ ioreg = NoIoreg
    /\ checkPortActive = "checkCOMPortActiveWindows"
    /\ pc = "idle"
    /\ vid = <<>>
    /\ pid = <<>>
    /\ devices = <<>>
    /\ loc = NoLocals
    /\ ops = <<>>
    /\ opened = {}
    /\ ret = None
    /\ first = None
    /\ again = FALSE

NextOld ==
    \/ \E fp \in FilterPairs : GetSerialDevicesLinux(fp[1], fp[2])
    \/ \E fp \in FilterPairs : GetSerialDevicesWindows(fp[1], fp[2])

SpecOld == InitOld /\ [][NextOld]_vars

(***************************************************************************)
(* Linux: where the class-device link leads and where the attribute files  *)
(* stand (TestFindSerialDeviceInfoDirWithReader,                           *)
(* serialfinder_linux_test.go:392-498)                                     *)
(***************************************************************************)
\* The attribute files stand up to MaxLevel levels above the resolved path.
MaxLevel == 3

\* One by-id entry whose class-device link resolves to target; idVendor can be
\* statted at the levels vidAt above target, idProduct at the levels pidAt.
MkFsysAt(target, vidAt, pidAt) ==
    LET AttrDirs == {Ancestor(target, k) : k \in vidAt \cup pidAt}
    IN  [readDirErr |-> "nil",
         dirEntries |-> <<[name |-> EntryName(1), isDir |-> FALSE]>>,
         symlinks |-> {<<Join(serialByIDPath, EntryName(1)), DevNode(1)>>,
                       <<ClassLink(1), target>>},
         stats |-> {Join(Ancestor(target, k), "idVendor") : k \in vidAt}
                   \cup {Join(Ancestor(target, k), "idProduct") : k \in pidAt},
         files |-> UNION {{<<Join(d, "idVendor"), GoodEntry.vendor.data>>,
                           <<Join(d, "idProduct"), GoodEntry.product.data>>,
                           <<Join(d, "serial"), GoodEntry.serial.data>>} : d \in AttrDirs}]

\* Resolved paths: deep in sysfs, three levels, two levels and one level below
\* the root directory, and the root directory.
LinuxDirTargets ==
    {ClassTarget(1),
     <<"/", "sys", "tty", "ttyS0">>,
     <<"/", "sys", "ttyS0">>,
     <<"/", "ttyS0">>,
     <<"/">>}

LinuxDirEnvs ==
    {MkFsysAt(target, vidAt, pidAt) :
        target \in LinuxDirTargets,
        vidAt \in SUBSET (0..MaxLevel), pidAt \in SUBSET (0..MaxLevel)}
    \cup {MkFsys(<<[GoodEntry EXCEPT !.classOK = FALSE]>>)}

LinuxDirFilterPairs ==
    {<<<<>>, <<>>>>, <<<<"0", "4", "0", "3">>, <<"6", "0", "0", "1">>>>}

InitLinuxDirs ==
    /\ platform = "linux"
    /\ fsys \in LinuxDirEnvs
    /\ reg = NoReg
    /\ ioreg = NoIoreg
    /\ checkPortActive = "checkCOMPortActiveWindows"
    /\ pc = "idle"
    /\ vid = <<>>
    /\ pid = <<>>
    /\ devices = <<>>
    /\ loc = NoLocals
    /\ ops = <<>>
    /\ opened = {}
    /\ ret = None
    /\ first = None
    /\ again = FALSE

NextLinuxDirs ==
    \/ \E fp \in LinuxDirFilterPairs : LinuxCall(fp[1], fp[2])
    \/ LinuxEntry
    \/ LinuxDone

SpecLinuxDirs == InitLinuxDirs /\ [][NextLinuxDirs]_vars

(***************************************************************************)
(* the claims                                                              *)
(***************************************************************************)
\* A call has returned and no other call has started.
Returned == pc = "idle" /\ ret # None

\* The last call returned what the first call returned.
SameAsFirst == ret = [devices |-> first.devices, err |-> first.err]

IsASCII(s) == \A i \in 1..Len(s) : s[i] # KelvinSign

\* Linux: the by-id entries as the claims describe them.
LinuxEntries == 1..Len(fsys.dirEntries)
LinuxEntryPath(i) == Join(serialByIDPath, fsys.dirEntries[i].name)
LinuxResolves(i) ==
    ~fsys.dirEntries[i].isDir /\ EvalSymlinks(LinuxEntryPath(i)).err = "nil"
LinuxAttrDir(i) ==
    IF LinuxResolves(i)
    THEN findSerialDeviceInfoDirWithReader(EvalSymlinks(LinuxEntryPath(i)).path).dir
    ELSE <<>>
LinuxAttr(i, name) == ReadFile(Join(LinuxAttrDir(i), name))
LinuxVidPidRead(i) ==
    /\ LinuxAttrDir(i) # <<>>
    /\ LinuxAttr(i, "idVendor").err = "nil"
    /\ LinuxAttr(i, "idProduct").err = "nil"
LinuxVidPidUnreadable(i) ==
    /\ LinuxAttrDir(i) # <<>>
    /\ (LinuxAttr(i, "idVendor").err # "nil" \/ LinuxAttr(i, "idProduct").err # "nil")
LinuxVid(i) == ToUpper(TrimSpace(LinuxAttr(i, "idVendor").data))
LinuxPid(i) == ToUpper(TrimSpace(LinuxAttr(i, "idProduct").data))
LinuxSerialMissing(i) == LinuxVidPidRead(i) /\ LinuxAttr(i, "serial").err # "nil"

\* The filters of the last call let a record with these IDs through.
PassesFilters(v, p) ==
    (vid = <<>> \/ v = ToUpper(vid)) /\ (pid = <<>> \/ p = ToUpper(pid))

\* macOS: the ioreg output as the claims describe it.
MacLines == 1..Len(ioreg.output)
MacLineAt(k) == TrimSpace(ioreg.output[k])
MacIsHeader(k) == HasPrefix(MacLineAt(k), <<"+", "-", "o">>)
MacIsUSBHeader(k) ==
    /\ MacIsHeader(k)
    /\ \/ Contains(MacLineAt(k), <<"I", "O", "U", "S", "B", "D", "e", "v", "i", "c", "e">>)
       \/ Contains(MacLineAt(k), <<"I", "O", "U", "S", "B", "H", "o", "s", "t",
                                   "D", "e", "v", "i", "c", "e">>)
MacIsClientHeader(k) ==
    /\ MacIsHeader(k)
    /\ ~MacIsUSBHeader(k)
    /\ Contains(MacLineAt(k), <<"I", "O", "S", "e", "r", "i", "a", "l", "B", "S", "D",
                                "C", "l", "i", "e", "n", "t">>)
MacKey(k) == reKeyValue(MacLineAt(k)).key
MacValue(k) == TrimSpace(reKeyValue(MacLineAt(k)).value)
\* The headers before line c that are no serial client's.
MacBlockHeaders(c) == {h \in 1..(c - 1) : MacIsHeader(h) /\ ~MacIsClientHeader(h)}
\* Line c lies in the block of a USB device.
MacInUSBBlock(c) ==
    MacBlockHeaders(c) # {} /\ MacIsUSBHeader(SetMax(MacBlockHeaders(c)))
\* The lines of that block before c that give the property key as a number.
MacNumberLines(c, key) ==
    {j \in (SetMax(MacBlockHeaders(c)) + 1)..(c - 1) :
        MacKey(j) = key /\ parseHexValue(MacValue(j)).err = "nil"}
MacNumber(c, key) ==
    Sprintf04X(parseHexValue(MacValue(SetMax(MacNumberLines(c, key)))).n)
\* Line c gives a callout path in the block of a USB device whose vendor and
\* product are given and which has no serial-number property.
MacSerialMissing(c) ==
    /\ MacKey(c) = KeyIOCalloutDevice
    /\ MacInUSBBlock(c)
    /\ MacNumberLines(c, KeyIdVendor) # {}
    /\ MacNumberLines(c, KeyIdProduct) # {}
    /\ parseStringValue(MacValue(c)).s # <<>>
    /\ \A j \in (SetMax(MacBlockHeaders(c)) + 1)..(c - 1) :
           MacKey(j) \notin {KeyUSBSerialNumber, KeykUSBSerialNumberString}

\* C1 (as claimed): every record of every returned list has a non-empty Vid,
\* a non-empty Pid and a non-empty Port, whatever the environment holds.
C1_EveryRecordHasVidPidPort ==
    Returned =>
        \A i \in 1..Len(ret.devices) :
            /\ ret.devices[i].Vid # <<>>
            /\ ret.devices[i].Pid # <<>>
            /\ ret.devices[i].Port # <<>>

CaseVariantOfFirst ==
    \/ vid = ToLower(first.vid) /\ pid = ToLower(first.pid)
    \/ vid = ToUpper(first.vid) /\ pid = ToUpper(first.pid)

\* C3 (as claimed): for any filter strings, the call with the filters in lower
\* case or in upper case returns what the call with the filters as given
\* returns: the same records and the same error.
C3_CaseVariantsAgree == (Returned /\ CaseVariantOfFirst) => SameAsFirst

\* C3 (amended): for filter strings of ASCII characters, the call with the
\* filters in lower case or in upper case returns what the call with the
\* filters as given returns: the same records and the same error.
C3_AsciiCaseVariantsAgree ==
    (Returned /\ IsASCII(first.vid) /\ IsASCII(first.pid) /\ CaseVariantOfFirst)
        => SameAsFirst

\* C3 witness: two calls whose filters differ in case only have returned the
\* same non-empty list.
C3_Witness ==
    /\ Returned /\ again
    /\ IsASCII(first.vid) /\ IsASCII(first.pid)
    /\ CaseVariantOfFirst
    /\ vid # first.vid
    /\ ret.devices # <<>>

\* C4: a call that returns an error returns no records with it.
C4_ErrorReturnsNoRecords == (Returned /\ ret.err # "nil") => ret.devices = <<>>

\* C4 witness: a call has returned an error after it had read the serial file
\* of an entry, which it does only to append that entry's record.
C4_Witness ==
    /\ Returned
    /\ ret.err # "nil"
    /\ \E i \in 1..Len(ops) :
           ops[i][1] = "ReadFile" /\ Base(ops[i][2]) = "serial"

\* C5 (as claimed): on Windows every handle the call opened is closed when
\* the call returns.
C5_HandlesClosedAtReturn == (Returned /\ platform = "windows") => opened = {}

C8_AbsentOrDeniedDirectoryIsEmpty ==
    (/\ Returned /\ platform = "linux"
     /\ (IsNotExist(fsys.readDirErr) \/ IsPermission(fsys.readDirErr)))
    => /\ ret = [devices |-> <<>>, err |-> "nil"]
       /\ ops = <<Op("ReadDir", serialByIDPath)>>

\* C8 witness: a call has returned where ReadDir is denied permission.
C8_Witness == Returned /\ platform = "linux" /\ IsPermission(fsys.readDirErr)

\* C9 (as claimed): on Linux, when ReadDir fails for any reason other than
\* the directory being absent, the call returns an error.
C9_AnyFailureButAbsenceIsFatal ==
    (/\ Returned /\ platform = "linux"
     /\ fsys.readDirErr # "nil" /\ ~IsNotExist(fsys.readDirErr))
    => ret.err # "nil"

\* C9 (amended): on Linux, when ReadDir fails for any reason other than the
\* directory being absent or permission being denied, the call returns an
\* error and no list.
C9_OtherFailuresAreFatal ==
    (/\ Returned /\ platform = "linux"
     /\ fsys.readDirErr # "nil"
     /\ ~IsNotExist(fsys.readDirErr) /\ ~IsPermission(fsys.readDirErr))
    => ret.err # "nil" /\ ret.devices = <<>>

\* C9 witness: a call has returned where ReadDir fails with an I/O error.
C9_Witness == Returned /\ platform = "linux" /\ fsys.readDirErr = "EIO"

LinuxQualifies(i) == LinuxVidPidRead(i) /\ PassesFilters(LinuxVid(i), LinuxPid(i))

\* Linux: the record the claims describe for entry i.
LinuxRecord(i) ==
    SerialDeviceInfo(IF LinuxAttr(i, "serial").err = "nil"
                     THEN TrimSpace(LinuxAttr(i, "serial").data) ELSE <<>>,
                     LinuxVid(i), LinuxPid(i),
                     serialByIDPath \o <<fsys.dirEntries[i].name>>)

\* Linux: the records of the qualifying entries among the first n, in order.
RECURSIVE LinuxRecordsUpTo(_)
LinuxRecordsUpTo(n) ==
    IF n = 0 THEN <<>>
    ELSE IF LinuxQualifies(n) THEN Append(LinuxRecordsUpTo(n - 1), LinuxRecord(n))
    ELSE LinuxRecordsUpTo(n - 1)

\* C11: on Linux a successful call returns exactly one record for each
\* non-directory entry that resolves, has a located attribute directory,
\* readable idVendor and idProduct and passes the filters, and no other: its
\* Port is the by-id path, its Vid and Pid the trimmed upper-cased contents of
\* idVendor and idProduct, its SerialNumber the trimmed content of serial.
C11_OneRecordPerQualifyingEntry ==
    (Returned /\ platform = "linux" /\ fsys.readDirErr = "nil" /\ ret.err = "nil")
        => ret.devices = LinuxRecordsUpTo(Len(fsys.dirEntries))

\* C11 witness: a filtered call over two entries has returned the record of
\* one of them, with its serial number, and left the other out.
C11_Witness ==
    /\ Returned /\ platform = "linux" /\ ret.err = "nil"
    /\ Len(fsys.dirEntries) = 2
    /\ vid # <<>>
    /\ Len(ret.devices) = 1
    /\ ret.devices[1].SerialNumber # <<>>
    /\ ret.devices[1].Port # EvalSymlinks(ret.devices[1].Port).path

\* Linux: entry i is a directory, or its symlink does not resolve, or no
\* attribute directory is found for it.
LinuxSkipped(i) == LinuxAttrDir(i) = <<>>

WinRootFails ==
    \/ RegistryOpenKey(enumUSBPath) # "nil"
    \/ OpenKey(enumUSBPath) # "nil"
    \/ ReadSubKeyNames(enumUSBPath).err # "nil"

\* C13: on Windows, when opening the root USB enumeration key fails or
\* reading its subkey names fails, the call returns an error and no records.
C13_RootFailureIsFatal ==
    (Returned /\ platform = "windows" /\ WinRootFails)
        => ret.err # "nil" /\ ret.devices = <<>>

\* C13 witness: a call has returned where the root key opens and its subkey
\* names cannot be read.
C13_Witness ==
    /\ Returned /\ platform = "windows"
    /\ OpenKey(enumUSBPath) = "nil"
    /\ ReadSubKeyNames(enumUSBPath).err # "nil"

\* Windows: the positions in the log of the call at which the port named
\* portName was probed.
WinProbesOf(portName) ==
    {i \in 1..Len(ops) : ops[i][1] = "CreateFile" /\ ops[i][2] = portName}

\* Windows: the ports the call has probed.
WinProbedPorts == {ops[i][2] : i \in {j \in 1..Len(ops) : ops[j][1] = "CreateFile"}}

\* C14: on Windows a returned record with Port = P was probed during the call
\* and the probe could open P; a port the probe could not open is the Port of
\* no record, and the call returns no error even so.
C14_RecordOnlyForActivePort ==
    (Returned /\ platform = "windows") =>
        /\ \A k \in 1..Len(ret.devices) :
              /\ WinProbesOf(ret.devices[k].Port) # {}
              /\ CreateFile(ret.devices[k].Port) = "nil"
        /\ \A portName \in WinProbedPorts :
              CreateFile(portName) # "nil" =>
                  /\ ret.err = "nil"
                  /\ \A k \in 1..Len(ret.devices) : ret.devices[k].Port # portName

\* C14 witness: a call has returned a record after it had probed a port that
\* could not be opened.
C14_Witness ==
    /\ Returned /\ platform = "windows"
    /\ ret.devices # <<>>
    /\ \E portName \in WinProbedPorts : CreateFile(portName) # "nil"

\* Windows: the registry as the claims describe it.  A token is the prefix
\* followed by four hexadecimal digits of either case.
WinHexChars ==
    {"0", "1", "2", "3", "4", "5", "6", "7", "8", "9"}
    \cup {LowerLetters[i] : i \in 1..6} \cup {UpperLetters[i] : i \in 1..6}
WinVidPrefix == <<"V", "I", "D", "_">>
WinPidPrefix == <<"P", "I", "D", "_">>
WinTokenAt(prefix, id, i) ==
    /\ i + Len(prefix) + 3 <= Len(id)
    /\ \A j \in 1..Len(prefix) : id[i + j - 1] = prefix[j]
    /\ \A j \in 0..3 : id[i + Len(prefix) + j] \in WinHexChars
WinHasToken(prefix, id) == \E i \in 1..Len(id) : WinTokenAt(prefix, id, i)
WinFirstToken(prefix, id) ==
    LET i == CHOOSE x \in 1..Len(id) :
                 WinTokenAt(prefix, id, x) /\ \A y \in 1..(x - 1) : ~WinTokenAt(prefix, id, y)
    IN  [j \in 1..4 |-> id[i + Len(prefix) + j - 1]]

WinInstanceIDs ==
    {ReadSubKeyNames(enumUSBPath).names[i] :
        i \in 1..Len(ReadSubKeyNames(enumUSBPath).names)}
WinChildNames(id) ==
    {ReadSubKeyNames(InstancePath(id)).names[i] :
        i \in 1..Len(ReadSubKeyNames(InstancePath(id)).names)}

\* The instance is one the claims exclude as a whole.
WinInstanceExcluded(id) ==
    \/ ~WinHasToken(WinVidPrefix, id)
    \/ ~WinHasToken(WinPidPrefix, id)
    \/ OpenKey(InstancePath(id)) # "nil"
    \/ ReadSubKeyNames(InstancePath(id)).err # "nil"

\* The child is one the claims exclude: no "Device Parameters", no PortName.
WinChildExcluded(id, c) ==
    \/ OpenKey(DeviceParamsPath(id, c)) # "nil"
    \/ GetStringValue(DeviceParamsPath(id, c)).err # "nil"

WinPortName(id, c) == GetStringValue(DeviceParamsPath(id, c)).value

\* The child has a readable PortName, passes the filters of the call and its
\* probe succeeds.
WinChildQualifies(id, c) ==
    /\ ~WinInstanceExcluded(id)
    /\ ~WinChildExcluded(id, c)
    /\ PassesFilters(ToUpper(WinFirstToken(WinVidPrefix, id)),
                     ToUpper(WinFirstToken(WinPidPrefix, id)))
    /\ CreateFile(WinPortName(id, c)) = "nil"

\* The call returned a record for the child.
WinEmitted(id, c) ==
    \E k \in 1..Len(ret.devices) :
        /\ ret.devices[k].SerialNumber = c
        /\ ret.devices[k].Port = WinPortName(id, c)
        /\ ret.devices[k].Vid = ToUpper(WinFirstToken(WinVidPrefix, id))
        /\ ret.devices[k].Pid = ToUpper(WinFirstToken(WinPidPrefix, id))

\* C15 as stated: on Windows, when the root key is readable, the call returns
\* no error whatever instances and children are excluded, and it returns a
\* record for every child that has a readable PortName, passes the filters
\* and whose probe succeeds.
C15_ExclusionsAreLocal ==
    (Returned /\ platform = "windows" /\ ~WinRootFails) =>
        /\ ret.err = "nil"
        /\ \A id \in WinInstanceIDs : \A c \in WinChildNames(id) :
              WinChildQualifies(id, c) => WinEmitted(id, c)

\* C15 amended: the same, for every child whose readable PortName is not the
\* empty string.
C15_ExclusionsAreLocalNonEmptyPort ==
    (Returned /\ platform = "windows" /\ ~WinRootFails) =>
        /\ ret.err = "nil"
        /\ \A id \in WinInstanceIDs : \A c \in WinChildNames(id) :
              (WinChildQualifies(id, c) /\ WinPortName(id, c) # <<>>) => WinEmitted(id, c)

\* C15 witness: a call has returned a record for one child although another
\* instance, or a child of another instance, was excluded.
C15_Witness ==
    /\ Returned /\ platform = "windows" /\ ret.err = "nil"
    /\ \E id \in WinInstanceIDs :
          \/ WinInstanceExcluded(id)
          \/ \E c \in WinChildNames(id) : WinChildExcluded(id, c)
    /\ \E id \in WinInstanceIDs : \E c \in WinChildNames(id) :
          /\ WinChildQualifies(id, c)
          /\ WinPortName(id, c) # <<>>
          /\ WinEmitted(id, c)

\* Four upper-case hexadecimal digits.
WinUpperHexChars ==
    {"0", "1", "2", "3", "4", "5", "6", "7", "8", "9"} \cup {UpperLetters[i] : i \in 1..6}
WinIsFourUpperHex(s) == Len(s) = 4 /\ \A i \in 1..4 : s[i] \in WinUpperHexChars

\* The upper-case form of a token of hexadecimal digits.
WinUpperHex(token) ==
    [i \in 1..Len(token) |->
        IF \E j \in 1..6 : LowerLetters[j] = token[i]
        THEN UpperLetters[CHOOSE j \in 1..6 : LowerLetters[j] = token[i]]
        ELSE token[i]]

\* The record is the one of the child c of the instance id.
WinRecordOf(d, id, c) ==
    /\ WinHasToken(WinVidPrefix, id) /\ WinHasToken(WinPidPrefix, id)
    /\ d.Vid = WinUpperHex(WinFirstToken(WinVidPrefix, id))
    /\ d.Pid = WinUpperHex(WinFirstToken(WinPidPrefix, id))
    /\ d.SerialNumber = c
    /\ GetStringValue(DeviceParamsPath(id, c)).err = "nil"
    /\ d.Port = WinPortName(id, c)

\* C16: on Windows the Vid and the Pid of a returned record are four upper-case
\* hexadecimal digits, the upper-cased first VID_ token and first PID_ token of
\* the instance ID wherever they stand in it; the SerialNumber is the name of
\* the child subkey and the Port is its PortName value.
C16_RecordFieldsFromRegistry ==
    (Returned /\ platform = "windows") =>
        \A k \in 1..Len(ret.devices) :
            /\ WinIsFourUpperHex(ret.devices[k].Vid)
            /\ WinIsFourUpperHex(ret.devices[k].Pid)
            /\ \E id \in WinInstanceIDs : \E c \in WinChildNames(id) :
                  WinRecordOf(ret.devices[k], id, c)

\* C16 witness: a call has returned a record for an instance ID with lower-case
\* digits, and one for an instance ID whose PID_ token stands before its VID_
\* token and that has a second PID_ token.
C16_Witness ==
    /\ Returned /\ platform = "windows" /\ Len(ret.devices) = 2
    /\ \E id \in WinInstanceIDs : \E c \in WinChildNames(id) :
          /\ WinRecordOf(ret.devices[1], id, c)
          /\ WinFirstToken(WinVidPrefix, id) # ret.devices[1].Vid
    /\ \E id \in WinInstanceIDs : \E c \in WinChildNames(id) :
          /\ WinRecordOf(ret.devices[2], id, c)
          /\ \E i, j \in 1..Len(id) :
                /\ i < j
                /\ WinTokenAt(WinPidPrefix, id, i)
                /\ WinTokenAt(WinVidPrefix, id, j)
          /\ \E i, j \in 1..Len(id) :
                i # j /\ WinTokenAt(WinPidPrefix, id, i) /\ WinTokenAt(WinPidPrefix, id, j)

\* C17: on macOS, when running ioreg fails the call returns an error and no
\* records, whatever the command wrote; when ioreg succeeds and writes nothing
\* the call returns an empty list and no error.
C17_IoregFailureIsFatalEmptyOutputIsEmpty ==
    (Returned /\ platform = "darwin") =>
        /\ ioreg.err # "nil" => (ret.err # "nil" /\ ret.devices = <<>>)
        /\ (ioreg.err = "nil" /\ ioreg.output = <<>>) =>
               (ret.err = "nil" /\ ret.devices = <<>>)

\* C17 witness: a call has returned after ioreg failed having written the
\* block of a device.
C17_Witness ==
    /\ Returned /\ platform = "darwin"
    /\ ioreg.err # "nil"
    /\ \E k \in MacLines : MacKey(k) = KeyIOCalloutDevice

\* macOS: the numbers of property values as the claims describe them.  The
\* numeral is the value without surrounding white space and without one
\* trailing comma; it is hexadecimal after 0x or 0X and decimal otherwise, and
\* it may carry a sign.
MacNumeralChars == <<"0", "1", "2", "3", "4", "5", "6", "7", "8", "9",
                     "a", "b", "c", "d", "e", "f">>
MacNumeralCapitals == <<"0", "1", "2", "3", "4", "5", "6", "7", "8", "9",
                        "A", "B", "C", "D", "E", "F">>
MacNumeral(value) == TrimSuffix(TrimSpace(value), <<",">>)
MacIsHexNumeral(value) ==
    /\ Len(MacNumeral(value)) >= 2
    /\ MacNumeral(value)[1] = "0"
    /\ MacNumeral(value)[2] \in {"x", "X"}
MacNumeralBase(value) == IF MacIsHexNumeral(value) THEN 16 ELSE 10
MacNumeralSigned(value) ==
    LET s == IF MacIsHexNumeral(value)
             THEN SubSeq(MacNumeral(value), 3, Len(MacNumeral(value)))
             ELSE MacNumeral(value)
    IN  [negative |-> s # <<>> /\ s[1] = "-",
         digits |-> IF s # <<>> /\ s[1] \in {"+", "-"} THEN Tail(s) ELSE s]
MacIsDigit(c, base) ==
    \E d \in 1..base : MacNumeralChars[d] = c \/ MacNumeralCapitals[d] = c
MacDigit(c, base) ==
    (CHOOSE d \in 1..base : MacNumeralChars[d] = c \/ MacNumeralCapitals[d] = c) - 1
MacNumeralParses(value) ==
    /\ MacNumeralSigned(value).digits # <<>>
    /\ \A i \in 1..Len(MacNumeralSigned(value).digits) :
           MacIsDigit(MacNumeralSigned(value).digits[i], MacNumeralBase(value))
RECURSIVE MacPositional(_, _, _)
MacPositional(digits, base, acc) ==
    IF digits = <<>> THEN acc
    ELSE MacPositional(Tail(digits), base, acc * base + MacDigit(Head(digits), base))
MacNumeralValue(value) ==
    LET n == MacPositional(MacNumeralSigned(value).digits, MacNumeralBase(value), 0)
    IN  IF MacNumeralSigned(value).negative THEN 0 - n ELSE n
MacInRange(n) == 0 <= n /\ n <= 65535
\* The four-character zero-padded upper-case hexadecimal rendering.
MacFourHex(n) ==
    <<MacNumeralCapitals[(n \div 4096) + 1], MacNumeralCapitals[((n \div 256) % 16) + 1],
      MacNumeralCapitals[((n \div 16) % 16) + 1], MacNumeralCapitals[(n % 16) + 1]>>

\* The field of the device that the property key gives.
MacField(device, key) == IF key = KeyIdVendor THEN device.Vid ELSE device.Pid

\* The scanner is at an idVendor or idProduct line in the block of a USB device.
MacAtNumberLine(key) ==
    /\ pc = "mac_scan"
    /\ loc.n \in MacLines
    /\ ~MacIsHeader(loc.n)
    /\ reKeyValue(MacLineAt(loc.n)).found
    /\ MacKey(loc.n) = key
    /\ loc.currentUSBDevice # None

MacIsFourUpperHex(s) ==
    Len(s) = 4 /\ \A i \in 1..4 : \E d \in 1..16 : MacNumeralCapitals[d] = s[i]

\* C19 (as claimed): every record the macOS engine returns has a Vid and a Pid
\* of exactly four upper-case hexadecimal digits, whatever number the idVendor
\* and idProduct values parse to, values above 65535 and negative values
\* included.
C19_VidPidAreFourUpperHexDigits ==
    (Returned /\ platform = "darwin") =>
        \A k \in 1..Len(ret.devices) :
            /\ MacIsFourUpperHex(ret.devices[k].Vid)
            /\ MacIsFourUpperHex(ret.devices[k].Pid)

\* macOS: the block of the USB device header h, up to the next header.
MacBlockOf(h) ==
    {j \in MacLines : j > h /\ \A m \in (h + 1)..j : ~MacIsHeader(m)}
MacBlockLacks(h, key) ==
    \A j \in MacBlockOf(h) : ~(reKeyValue(MacLineAt(j)).found /\ MacKey(j) = key)
\* The callout lines that follow the USB device header h before the next USB
\* device header.
MacCalloutsAfter(h) ==
    {c \in MacLines :
        /\ c > h
        /\ \A m \in (h + 1)..c : ~MacIsUSBHeader(m)
        /\ reKeyValue(MacLineAt(c)).found
        /\ MacKey(c) = KeyIOCalloutDevice}
MacUSBHeaders == {h \in MacLines : MacIsUSBHeader(h)}
\* The USB device headers whose block gives no idVendor or no idProduct.
MacDeficientHeaders ==
    {h \in MacUSBHeaders : MacBlockLacks(h, KeyIdVendor) \/ MacBlockLacks(h, KeyIdProduct)}
MacPortAt(c) == parseStringValue(MacValue(c)).s

\* C20 (as claimed): on macOS a USB device block without an idVendor property
\* or without an idProduct property produces no record, whatever follows it up
\* to the next USB device header, a serial client with a callout path and
\* idVendor and idProduct properties of its own included: when every callout
\* line of the output follows such a block the call returns no record, and no
\* error if ioreg ran and every line could be scanned.
C20_DeficientBlockYieldsNoRecord ==
    (/\ Returned /\ platform = "darwin"
     /\ ioreg.err = "nil"
     /\ \A k \in MacLines : ioreg.output[k] # TooLongLine
     /\ \A c \in MacLines :
            (reKeyValue(MacLineAt(c)).found /\ MacKey(c) = KeyIOCalloutDevice)
                => \E h \in MacDeficientHeaders : c \in MacCalloutsAfter(h))
        => ret.err = "nil" /\ ret.devices = <<>>

\* macOS: the USB device whose block precedes line c most closely, and what
\* its block, up to the next header, gives.
MacIsProperty(j, key) ==
    ~MacIsHeader(j) /\ reKeyValue(MacLineAt(j)).found /\ MacKey(j) = key
MacIsCallout(c) == MacIsProperty(c, KeyIOCalloutDevice)
MacIsSerialLine(j) ==
    MacIsProperty(j, KeyUSBSerialNumber) \/ MacIsProperty(j, KeykUSBSerialNumberString)
MacUSBHeadersBefore(c) == {h \in MacUSBHeaders : h < c}
MacNearestUSBHeader(c) == SetMax(MacUSBHeadersBefore(c))
MacBlockLines(h, key) ==
    {j \in MacBlockOf(h) :
        /\ MacIsProperty(j, key)
        /\ MacNumeralParses(MacValue(j))
        /\ MacInRange(MacNumeralValue(MacValue(j)))}
MacBlockSerialLines(h) == {j \in MacBlockOf(h) : MacIsSerialLine(j)}
\* The block of h gives one vendor, one product and at most one serial number.
MacBlockIsPlain(h) ==
    /\ Cardinality(MacBlockLines(h, KeyIdVendor)) = 1
    /\ Cardinality(MacBlockLines(h, KeyIdProduct)) = 1
    /\ Cardinality(MacBlockSerialLines(h)) <= 1
MacBlockID(h, key) ==
    MacFourHex(MacNumeralValue(MacValue(CHOOSE j \in MacBlockLines(h, key) : TRUE)))
MacBlockSerial(h) ==
    IF MacBlockSerialLines(h) = {} THEN <<>>
    ELSE parseStringValue(MacValue(CHOOSE j \in MacBlockSerialLines(h) : TRUE)).s
\* The record that the callout line c gives with the USB device of header h.
MacInherited(h, c) ==
    SerialDeviceInfo(MacBlockSerial(h), MacBlockID(h, KeyIdVendor),
                     MacBlockID(h, KeyIdProduct), MacPortAt(c))

\* C21 (as claimed): on macOS the callout path of a serial client inherits
\* vendor, product and serial number of the nearest USB device block before
\* it, whatever headers that are neither USB device nor serial client headers
\* lie between the two: an unfiltered call returns the record with that
\* device's Vid, Pid and SerialNumber and the callout path as Port.
C21_CalloutInheritsNearestUSBDevice ==
    (Returned /\ platform = "darwin" /\ ret.err = "nil" /\ vid = <<>> /\ pid = <<>>) =>
        \A c \in MacLines :
            (/\ MacIsCallout(c)
             /\ MacPortAt(c) # <<>>
             /\ MacUSBHeadersBefore(c) # {}
             /\ MacBlockIsPlain(MacNearestUSBHeader(c)))
                => \E k \in 1..Len(ret.devices) :
                       ret.devices[k] = MacInherited(MacNearestUSBHeader(c), c)

\* C22 (as claimed): on macOS the filters "0x483" and "0x573c", written with a
\* 0x prefix and without zero padding, select the devices with the same
\* numbers: the call returns the records with Vid "0483" and Pid "573C" that
\* the unfiltered call returns.
C22_PrefixedFiltersSelectByNumber ==
    (/\ Returned /\ platform = "darwin"
     /\ first.vid = <<>> /\ first.pid = <<>> /\ first.err = "nil"
     /\ vid = <<"0", "x", "4", "8", "3">>
     /\ pid = <<"0", "x", "5", "7", "3", "c">>) =>
        LET Selected(r) == r.Vid = <<"0", "4", "8", "3">> /\ r.Pid = <<"5", "7", "3", "C">>
        IN  ret = [devices |-> SelectSeq(first.devices, Selected), err |-> "nil"]

\* The implementations of serialfinder_linux.go: what they discover.  On
\* Linux an entry whose attribute directory they find and whose idVendor and
\* idProduct they read; on Windows a child with a PortName whose port can be
\* opened, below an instance ID with a VID_ token, "&" and a PID_ token.
OldLinuxDir(i) ==
    IF LinuxResolves(i) THEN findSerialDeviceInfoDir(EvalSymlinks(LinuxEntryPath(i)).path)
    ELSE <<>>
OldLinuxDiscovered(i) ==
    /\ OldLinuxDir(i) # <<>>
    /\ ReadFile(Join(OldLinuxDir(i), "idVendor")).err = "nil"
    /\ ReadFile(Join(OldLinuxDir(i), "idProduct")).err = "nil"
OldWinDiscovered(id, c) ==
    /\ \E i \in 1..Len(id) :
          /\ WinTokenAt(WinVidPrefix, id, i)
          /\ i + 8 <= Len(id) /\ id[i + 8] = "&"
          /\ WinTokenAt(WinPidPrefix, id, i + 9)
    /\ ~WinInstanceExcluded(id)
    /\ ~WinChildExcluded(id, c)
    /\ CreateFile(WinPortName(id, c)) = "nil"

\* C23 (as claimed): the implementations of serialfinder_linux.go return all
\* the devices they discover when vid and pid are both empty: on Linux a
\* record with the by-id path of every discovered entry as Port, on Windows a
\* record with the child's name and PortName for every discovered child.
C23_EmptyFiltersReturnAllDevices ==
    (Returned /\ vid = <<>> /\ pid = <<>> /\ ret.err = "nil") =>
        /\ platform = "linux" =>
              \A i \in LinuxEntries :
                  OldLinuxDiscovered(i) =>
                      \E k \in 1..Len(ret.devices) :
                          ret.devices[k].Port = LinuxEntryPath(i)
        /\ platform = "windows" =>
              \A id \in WinInstanceIDs : \A c \in WinChildNames(id) :
                  OldWinDiscovered(id, c) =>
                      \E k \in 1..Len(ret.devices) :
                          /\ ret.devices[k].SerialNumber = c
                          /\ ret.devices[k].Port = WinPortName(id, c)

\* macOS: line k is a header that names neither a USB device nor a serial
\* client.
MacIsOtherHeader(k) == MacIsHeader(k) /\ ~MacIsUSBHeader(k) /\ ~MacIsClientHeader(k)
\* The context has a Vid and a Pid.
MacContextComplete(cur) ==
    IF cur = None THEN FALSE ELSE cur.Vid # <<>> /\ cur.Pid # <<>>

MacSerialsSeen(h, c) ==
    {j \in (h + 1)..(c - 1) :
        MacIsSerialLine(j) /\ parseStringValue(MacValue(j)).s # <<>>}

\* C25 (as claimed): on macOS the serial number of an emitted record is the
\* first non-empty value among the "USB Serial Number" and
\* "kUSBSerialNumberString" lines of its USB context; no later serial-number
\* line, empty or not, replaces it.  Stated of the record that the scanner has
\* just appended for the callout line before loc.n in an unfiltered call.
C25_FirstNonEmptySerialIsKept ==
    (/\ pc = "mac_scan" /\ platform = "darwin"
     /\ vid = <<>> /\ pid = <<>>
     /\ loc.n >= 2 /\ loc.n - 1 \in MacLines
     /\ MacIsCallout(loc.n - 1)
     /\ MacPortAt(loc.n - 1) # <<>>
     /\ MacContextComplete(loc.currentUSBDevice)
     /\ MacSerialsSeen(MacNearestUSBHeader(loc.n - 1), loc.n - 1) # {}) =>
        /\ devices # <<>>
        /\ devices[Len(devices)].SerialNumber =
               parseStringValue(MacValue(
                   SetMin(MacSerialsSeen(MacNearestUSBHeader(loc.n - 1), loc.n - 1)))).s

\* macOS: what the lines between the USB device header h and line c give.
MacIDLines(h, c, key) ==
    {j \in (h + 1)..(c - 1) :
        /\ MacIsProperty(j, key)
        /\ MacNumeralParses(MacValue(j))
        /\ MacInRange(MacNumeralValue(MacValue(j)))}
MacIDBetween(h, c, key) ==
    MacFourHex(MacNumeralValue(MacValue(SetMax(MacIDLines(h, c, key)))))
MacSerialBetween(h, c) ==
    IF MacSerialsSeen(h, c) = {} THEN <<>>
    ELSE parseStringValue(MacValue(SetMax(MacSerialsSeen(h, c)))).s

\* C26: on macOS every USB device header line replaces the current context
\* with an empty one, and the Vid, Pid and SerialNumber of a record come only
\* from the property lines between the most recent USB device header before
\* the callout line and the callout line: nothing of an earlier USB device
\* appears in it.
C26_RecordComesFromNearestUSBBlock ==
    [][(pc = "mac_scan" /\ loc.n \in MacLines /\ ioreg.output[loc.n] # TooLongLine) =>
          /\ MacIsUSBHeader(loc.n) =>
                 (pc' = "mac_scan"
                  /\ loc'.currentUSBDevice = SerialDeviceInfo(<<>>, <<>>, <<>>, <<>>))
          /\ (pc' = "mac_scan" /\ devices' # devices) =>
                 /\ MacIsCallout(loc.n)
                 /\ MacUSBHeadersBefore(loc.n) # {}
                 /\ MacIDLines(MacNearestUSBHeader(loc.n), loc.n, KeyIdVendor) # {}
                 /\ MacIDLines(MacNearestUSBHeader(loc.n), loc.n, KeyIdProduct) # {}
                 /\ devices' =
                        Append(devices,
                               SerialDeviceInfo(
                                   MacSerialBetween(MacNearestUSBHeader(loc.n), loc.n),
                                   MacIDBetween(MacNearestUSBHeader(loc.n), loc.n, KeyIdVendor),
                                   MacIDBetween(MacNearestUSBHeader(loc.n), loc.n, KeyIdProduct),
                                   MacPortAt(loc.n)))]_vars

\* C26 witness: a call has returned two records, the first with a serial
\* number, the second, of another USB device without serial-number line, with
\* none.
C26_Witness ==
    /\ Returned /\ platform = "darwin" /\ ret.err = "nil"
    /\ Len(ret.devices) = 2
    /\ ret.devices[1].SerialNumber # <<>>
    /\ ret.devices[2].SerialNumber = <<>>
    /\ ret.devices[2].Vid # ret.devices[1].Vid
    /\ Cardinality(MacUSBHeaders) = 2

(***************************************************************************)
(* C27: the directory findSerialDeviceInfoDirWithReader returns             *)
(***************************************************************************)
LinuxRoot == <<"/">>

\* The class-device link of the only entry resolves.
LinuxLinkResolves == \E link \in fsys.symlinks : link[1] = ClassLink(1)

LinuxTarget == (CHOOSE link \in fsys.symlinks : link[1] = ClassLink(1))[2]

\* One level up; the root directory is its own parent.
LinuxUp(d) == IF Len(d) <= 1 THEN d ELSE SubSeq(d, 1, Len(d) - 1)

\* Stat succeeds on both attribute files of d.
LinuxHasBoth(d) ==
    /\ (d \o <<"idVendor">>) \in fsys.stats
    /\ (d \o <<"idProduct">>) \in fsys.stats

\* The first directory of the list cands with both files, as a set.
LinuxNearest(cands) ==
    {cands[i] : i \in {j \in 1..Len(cands) :
                          /\ LinuxHasBoth(cands[j])
                          /\ \A k \in 1..(j - 1) : ~LinuxHasBoth(cands[k])}}

\* The directories up to the first one with both files.
LinuxSearched(cands) ==
    {cands[i] : i \in {j \in 1..Len(cands) :
                          \A k \in 1..(j - 1) : ~LinuxHasBoth(cands[k])}}

\* The directories the call examined with Stat, and the directory whose
\* idVendor it went on to read.
LinuxExamined ==
    {SubSeq(ops[i][2], 1, Len(ops[i][2]) - 1) :
        i \in {j \in 1..Len(ops) : ops[j][1] = "Stat"}}

LinuxChosen ==
    {SubSeq(ops[i][2], 1, Len(ops[i][2]) - 1) :
        i \in {j \in 1..Len(ops) :
                  ops[j][1] = "ReadFile" /\ ops[j][2][Len(ops[j][2])] = "idVendor"}}

LinuxThreeLevels == <<LinuxTarget, LinuxUp(LinuxTarget), LinuxUp(LinuxUp(LinuxTarget))>>

\* The grandparent is a candidate only when it is not the root directory.
LinuxCandidates ==
    IF LinuxUp(LinuxUp(LinuxTarget)) = LinuxRoot
    THEN <<LinuxTarget, LinuxUp(LinuxTarget)>>
    ELSE LinuxThreeLevels

LinuxOneEntryCall == Returned /\ platform = "linux" /\ Len(fsys.dirEntries) = 1

\* C27 as stated: the directory returned is the nearest of the resolved path,
\* its parent and its grandparent that holds both idVendor and idProduct, none
\* when the class-device link does not resolve or no level qualifies; no
\* directory above the grandparent is examined, and the root directory is
\* never examined (nor, then, returned).
C27_NearestOfThreeNeverRoot ==
    LinuxOneEntryCall =>
        IF LinuxLinkResolves
        THEN /\ LinuxChosen = LinuxNearest(LinuxCandidates)
             /\ LinuxExamined \subseteq LinuxSearched(LinuxThreeLevels)
             /\ LinuxRoot \notin LinuxExamined
        ELSE LinuxChosen = {} /\ LinuxExamined = {}

\* C27 amended: the directory returned is the nearest of the resolved path,
\* its parent and, unless that is the root directory, its grandparent that
\* holds both idVendor and idProduct; exactly the levels up to the one
\* returned are examined, the root directory too when it is the resolved
\* path or its parent; nothing is returned or examined when the class-device
\* link does not resolve.
C27_NearestOfThreeRootNotAsGrandparent ==
    LinuxOneEntryCall =>
        IF LinuxLinkResolves
        THEN /\ LinuxChosen = LinuxNearest(LinuxCandidates)
             /\ LinuxExamined = LinuxSearched(LinuxCandidates)
        ELSE LinuxChosen = {} /\ LinuxExamined = {}

\* C27 witness: a call has returned where both files stand in the root
\* directory only, two levels above the resolved path: the path and its
\* parent were examined, the root directory was not, nothing was found.
C27_Witness ==
    /\ LinuxOneEntryCall /\ LinuxLinkResolves
    /\ Len(LinuxTarget) = 3
    /\ LinuxHasBoth(LinuxRoot)
    /\ ~LinuxHasBoth(LinuxTarget) /\ ~LinuxHasBoth(LinuxUp(LinuxTarget))
    /\ LinuxExamined = {LinuxTarget, LinuxUp(LinuxTarget)}
    /\ LinuxChosen = {}
    /\ ret.err = "nil" /\ ret.devices = <<>>

(***************************************************************************)
(* C28: the mandatory attribute reads precede filtering                    *)
(***************************************************************************)
\* Entry i is the first whose attribute directory is located and whose
\* idVendor or idProduct cannot be read.
LinuxFirstUnreadable(i) ==
    /\ LinuxVidPidUnreadable(i)
    /\ \A j \in 1..(i - 1) : ~LinuxVidPidUnreadable(j)

\* The call touched entry j: it resolved the entry's by-id link.
LinuxTouched(j) == \E k \in 1..Len(ops) : ops[k] = <<"EvalSymlinks", LinuxEntryPath(j)>>

\* The call read the file name of entry i's attribute directory.
LinuxReadOf(i, name) ==
    \E k \in 1..Len(ops) : ops[k] = <<"ReadFile", LinuxAttrDir(i) \o <<name>>>>

\* C28: on Linux, once an entry's attribute directory is located, a failure to
\* read its idVendor or idProduct ends the call with an error and no record,
\* whatever the filters are and whatever was collected before; idProduct is
\* read whenever idVendor could be read, the serial file is not read, and of
\* the entries that are no directories exactly those up to the failing one
\* are touched.
C28_AttributeReadsPrecedeFiltering ==
    (Returned /\ platform = "linux" /\ fsys.readDirErr = "nil") =>
        \A i \in LinuxEntries :
            LinuxFirstUnreadable(i) =>
                /\ ret.err # "nil"
                /\ ret.devices = <<>>
                /\ LinuxReadOf(i, "idVendor")
                /\ LinuxAttr(i, "idVendor").err = "nil" => LinuxReadOf(i, "idProduct")
                /\ ~LinuxReadOf(i, "serial")
                /\ \A j \in LinuxEntries :
                       LinuxTouched(j) <=> (j <= i /\ ~fsys.dirEntries[j].isDir)

\* C28 witness: a call with both filters set has returned an error and no
\* record; its first entry passes the filters, its second entry has a readable
\* idVendor that does not match the filter and an unreadable idProduct.
C28_Witness ==
    /\ Returned /\ platform = "linux" /\ fsys.readDirErr = "nil"
    /\ vid # <<>> /\ pid # <<>>
    /\ Len(fsys.dirEntries) = 2
    /\ LinuxVidPidRead(1) /\ PassesFilters(LinuxVid(1), LinuxPid(1))
    /\ LinuxFirstUnreadable(2)
    /\ LinuxAttr(2, "idVendor").err = "nil"
    /\ LinuxVid(2) # ToUpper(vid)
    /\ ret.err # "nil" /\ ret.devices = <<>>

(***************************************************************************)
(* C29: what the Windows engine opens and probes                           *)
(***************************************************************************)
\* The instance ID yields both tokens and passes the filters of the call.
WinInstanceSelected(id) ==
    /\ WinHasToken(WinVidPrefix, id)
    /\ WinHasToken(WinPidPrefix, id)
    /\ PassesFilters(ToUpper(WinFirstToken(WinVidPrefix, id)),
                     ToUpper(WinFirstToken(WinPidPrefix, id)))

\* The places of the log where a port is probed.
WinProbes == {k \in 1..Len(ops) : ops[k][1] = "CreateFile"}

\* The places of the log where a registry key is used.
WinKeyOps ==
    {k \in 1..Len(ops) :
        ops[k][1] \in {"OpenKey", "ReadSubKeyNames", "GetStringValue", "Close"}}

\* The probe at place k of the log is the one of child c of instance id: it
\* follows at once the opening of the child's "Device Parameters" key and the
\* successful read of its PortName, it probes that name, and the key has not
\* been closed.
WinProbeOfChild(k, id, c) ==
    LET path == DeviceParamsPath(id, c)
    IN  /\ k > 2
        /\ ops[k - 2] = <<"OpenKey", path>>
        /\ ops[k - 1] = <<"GetStringValue", path>>
        /\ GetStringValue(path).err = "nil"
        /\ ops[k][2] = WinPortName(id, c)
        /\ \A m \in 1..(k - 1) : ops[m] # <<"Close", path>>
        /\ k = Len(ops) => <<"deviceParamsKey", path>> \in opened

\* C29: on Windows every probe of a port belongs to a child of an instance
\* whose ID yields both tokens and passes both filters, follows the successful
\* read of that child's PortName and happens while the child's "Device
\* Parameters" key is open; a child's key is opened, and so the child probed,
\* at most once; no key of an instance that is unparsable or filtered out is
\* ever used.
C29_ProbeOnlyForSelectedChildren ==
    platform = "windows" =>
        /\ \A k \in WinProbes :
               \E id \in WinInstanceIDs :
                   /\ WinInstanceSelected(id)
                   /\ \E c \in WinChildNames(id) : WinProbeOfChild(k, id, c)
        /\ \A id \in WinInstanceIDs : \A c \in WinChildNames(id) :
               Cardinality({k \in 1..Len(ops) :
                               ops[k] = <<"OpenKey", DeviceParamsPath(id, c)>>}) <= 1
        /\ \A id \in WinInstanceIDs :
               ~WinInstanceSelected(id) => \A k \in WinKeyOps : ops[k][2].id # id

\* C29 witness: a call with a filter set has returned; one instance passed the
\* filters and its child was probed, another instance with both tokens and a
\* child with a PortName was filtered out.
C29_Witness ==
    /\ Returned /\ platform = "windows" /\ ret.err = "nil"
    /\ vid # <<>>
    /\ WinProbes # {}
    /\ \E id \in WinInstanceIDs :
           /\ WinHasToken(WinVidPrefix, id) /\ WinHasToken(WinPidPrefix, id)
           /\ ~WinInstanceSelected(id)
           /\ \E c \in WinChildNames(id) : GetStringValue(DeviceParamsPath(id, c)).err = "nil"

(***************************************************************************)
(* C30: parseStringValue, the comma and the quotes                         *)
(***************************************************************************)
MacDropComma(s) ==
    IF Len(s) > 0 /\ s[Len(s)] = "," THEN SubSeq(s, 1, Len(s) - 1) ELSE s

MacDropQuotes(s) ==
    IF Len(s) >= 2 /\ s[1] = Quote /\ s[Len(s)] = Quote
    THEN SubSeq(s, 2, Len(s) - 1)
    ELSE s

\* The string the claim gives for a value: the comma after the closing quote
\* or before it is removed together with one layer of quotes.
MacStringClaimed(s) == MacDropComma(MacDropQuotes(MacDropComma(s)))

\* C30: on macOS the serial number of every returned record is empty or the
\* value of a serial-number line of the output without its trailing comma,
\* whether the comma stands after the closing quote or before it, and without
\* one layer of surrounding quotes, interior quotes kept.
C30_CommaRemovedWhereverItSits ==
    (Returned /\ platform = "darwin" /\ ret.err = "nil") =>
        \A k \in 1..Len(ret.devices) :
            \/ ret.devices[k].SerialNumber = <<>>
            \/ \E j \in MacLines :
                   /\ MacIsSerialLine(j)
                   /\ ret.devices[k].SerialNumber = MacStringClaimed(MacValue(j))

====
